---- MODULE Spec2Model ----
(***************************************************************************)
(* Hidden-line projection engine of geetesh07/export.                      *)
(*                                                                         *)
(* The model follows src/drill-gen/src/utils/generateIntersectionEdges.js  *)
(* (generateIntersectionEdges, getProjectedLineOverlap, EdgeSet and        *)
(* ProjectionGenerator), src/src/utils/triangleLineUtils.js and the worker *)
(* entry point of src/unnamed/part_000.                                    *)
(*                                                                         *)
(* Numbers.  Coordinates are integers in units of OFFSET_EPSILON (1e-6):   *)
(* mesh vertices sit on even coordinates, so the offset of one unit that   *)
(* generateIntersectionEdges adds never lands on a mesh vertex.  Edge      *)
(* parameters (t-values) are exact rationals <<n, d>> in lowest terms.     *)
(* The thresholds far below the unit (EPSILON, AREA_EPSILON, DIST_EPSILON, *)
(* DIST_THRESHOLD) compare against exactly zero at this resolution.        *)
(*                                                                         *)
(* A Line3 that the code obtains by trimming a candidate edge (the scratch *)
(* lines _beneathLine and _overlapLine) is collinear with that edge; it is *)
(* kept as the edge's end points together with the parameter range         *)
(* <<t0, t1>> it covers.                                                   *)
(***************************************************************************)
EXTENDS Integers, Sequences, FiniteSets, TLC

\* ------------------------------------------------------------------------
\* Exact rationals
\* ------------------------------------------------------------------------
Abs(x) == IF x < 0 THEN -x ELSE x

RECURSIVE GCD(_, _)
GCD(a, b) == IF b = 0 THEN a ELSE GCD(b, a % b)

Frac(n, d) ==
    LET g == GCD(Abs(n), Abs(d))
        s == IF d < 0 THEN -1 ELSE 1
    IN  <<(s * n) \div g, (s * d) \div g>>

F0 == <<0, 1>>
F1 == <<1, 1>>
FInt(n) == <<n, 1>>
FAdd(p, q) == Frac(p[1] * q[2] + q[1] * p[2], p[2] * q[2])
FSub(p, q) == Frac(p[1] * q[2] - q[1] * p[2], p[2] * q[2])
FMul(p, q) == Frac(p[1] * q[1], p[2] * q[2])
FLe(p, q) == p[1] * q[2] <= q[1] * p[2]
FLt(p, q) == p[1] * q[2] < q[1] * p[2]
FMax(p, q) == IF FLe(p, q) THEN q ELSE p
FMin(p, q) == IF FLe(p, q) THEN p ELSE q

\* ------------------------------------------------------------------------
\* three.js Vector3 / Line3 / Triangle on integer coordinates
\* ------------------------------------------------------------------------
\* NULL stands for a missing Line3, NOHIT for a missing plane intersection.
NULL == [null |-> TRUE]
NOHIT == <<>>

VSub(p, q) == <<p[1] - q[1], p[2] - q[2], p[3] - q[3]>>
VAdd(p, q) == <<p[1] + q[1], p[2] + q[2], p[3] + q[3]>>
VDot(p, q) == p[1] * q[1] + p[2] * q[2] + p[3] * q[3]
VCross(p, q) == <<p[2] * q[3] - p[3] * q[2],
                  p[3] * q[1] - p[1] * q[3],
                  p[1] * q[2] - p[2] * q[1]>>
distanceToSquared(p, q) == VDot(VSub(p, q), VSub(p, q))
Min2(x, y) == IF x <= y THEN x ELSE y
Max2(x, y) == IF x >= y THEN x ELSE y
Min3(x, y, z) == Min2(x, Min2(y, z))
Max3(x, y, z) == Max2(x, Max2(y, z))

Line3(s, e) == [start |-> s, end |-> e]
Tri(a, b, c) == [a |-> a, b |-> b, c |-> c]
points(tri) == <<tri.a, tri.b, tri.c>>
delta(line) == VSub(line.end, line.start)

\* Triangle.getNormal before normalisation: (c - b) x (a - b)
planeNormal(tri) == VCross(VSub(tri.c, tri.b), VSub(tri.a, tri.b))

\* A sub-segment of a candidate edge: the edge and the parameter range.
SubLine(line, t0, t1) == [start |-> line.start, end |-> line.end, t0 |-> t0, t1 |-> t1]
WholeLine(line) == SubLine(line, F0, F1)

\* The component of the projection vector with the largest magnitude:
\* 1 = X, 2 = Y, 3 = Z, with the tie-break of the if-chains in the source.
DominantAxis(pv) ==
    LET absX == Abs(pv[1])
        absY == Abs(pv[2])
        absZ == Abs(pv[3])
    IN  IF absX >= absY /\ absX >= absZ THEN 1
        ELSE IF absY >= absX /\ absY >= absZ THEN 2
        ELSE 3

Flatten(p, ax) == [p EXCEPT ![ax] = 0]

\* ------------------------------------------------------------------------
\* triangleLineUtils.js
\* ------------------------------------------------------------------------
\* |dir . pv| >= 1 - EPSILON with dir the normalised edge direction:
\* (d . pv)^2 >= (d . d) for the unnormalised direction d (normalize() leaves a
\* zero vector zero, whose dot product is 0).
isYProjectedLineDegenerate(line, pv) ==
    LET d == delta(line)
    IN  VDot(d, d) > 0 /\ VDot(d, pv) * VDot(d, pv) >= VDot(d, d)

isProjectedLineDegenerate(line, pv) == isYProjectedLineDegenerate(line, pv)

\* |normal . pv| <= EPSILON
isYProjectedTriangleDegenerate(tri, pv) == VDot(planeNormal(tri), pv) = 0

isProjectedTriangleDegenerate(tri, pv) == isYProjectedTriangleDegenerate(tri, pv)

RECURSIVE isLineTriangleEdgeLoop(_, _, _, _, _)
isLineTriangleEdgeLoop(tri, line, i, startMatches, endMatches) ==
    IF i > 3 THEN startMatches /\ endMatches
    ELSE LET tp == points(tri)[i]
             sm == startMatches \/ distanceToSquared(line.start, tp) = 0
             em == endMatches \/ distanceToSquared(line.end, tp) = 0
         IN  IF sm /\ em THEN TRUE
             ELSE isLineTriangleEdgeLoop(tri, line, i + 1, sm, em)

isLineTriangleEdge(tri, line) == isLineTriangleEdgeLoop(tri, line, 1, FALSE, FALSE)

\* ------------------------------------------------------------------------
\* getProjectedLineOverlap
\* ------------------------------------------------------------------------
\* Plane.intersectLine of the ortho plane (normal o, through s) with the
\* flattened triangle edge p1 -> p2: NOHIT, or the parameter of the hit on the
\* triangle edge.  d1, d2 are the (unnormalised) distances of p1, p2.
orthoPlaneIntersectLine(o, s, p1, p2) ==
    LET d1 == VDot(o, VSub(p1, s))
        denominator == VDot(o, VSub(p2, p1))
    IN  IF denominator = 0
        THEN IF d1 = 0 THEN F0 ELSE NOHIT
        ELSE LET t == Frac(-d1, denominator)
             IN  IF FLt(t, F0) \/ FLt(F1, t) THEN NOHIT ELSE t

\* The sweep over the three flattened triangle edges: the sequence of hits kept
\* in _triLine.start, _triLine.end, each as its parameter along the flattened
\* candidate edge s -> s + d ((point - s) . d / (d . d)).
RECURSIVE triLineHits(_, _, _, _, _, _)
triLineHits(pts, o, s, d, i, hits) ==
    IF i > 3 \/ Len(hits) = 2 THEN hits
    ELSE LET p1 == pts[i]
             p2 == pts[(i % 3) + 1]
             startIntersects == VDot(o, VSub(p1, s)) = 0
             endIntersects == VDot(o, VSub(p2, s)) = 0
             hit == orthoPlaneIntersectLine(o, s, p1, p2)
             edgeIntersects == hit # NOHIT
             t == IF startIntersects /\ ~edgeIntersects THEN F0 ELSE hit
             u == FAdd(Frac(VDot(VSub(p1, s), d), VDot(d, d)),
                       FMul(t, Frac(VDot(VSub(p2, p1), d), VDot(d, d))))
         IN  IF (edgeIntersects /\ ~endIntersects) \/ startIntersects
             THEN triLineHits(pts, o, s, d, i + 1, Append(hits, u))
             ELSE triLineHits(pts, o, s, d, i + 1, hits)

\* line is a sub-segment of a candidate edge; the result is NULL or the
\* sub-segment of line whose projection lies inside the projected triangle.
getProjectedLineOverlap(line, triangle, pv) ==
    LET ax == DominantAxis(pv)
        ta == Flatten(triangle.a, ax)
        tb == Flatten(triangle.b, ax)
        tc == Flatten(triangle.c, ax)
        s == Flatten(line.start, ax)
        d == VSub(Flatten(line.end, ax), s)
        normal == planeNormal(Tri(ta, tb, tc))
        o == VCross(d, normal)
        \* lines 217-239, h1 and h2 the hits in the direction of the line
        clip(s1, e1, s2, e2) ==
            IF FLe(e1, s2) \/ FLe(e2, s1) THEN NULL          \* separated1, separated2
            ELSE SubLine(line, FAdd(line.t0, FMax(s1, s2)), FAdd(line.t0, FMin(e1, e2)))
        ordered(h1, h2) ==
            clip(F0, FSub(line.t1, line.t0), FSub(h1, line.t0), FSub(h2, line.t0))
        overlapOf(hits) ==
            IF Len(hits) # 2 THEN NULL
            ELSE IF FLt(hits[2], hits[1])                    \* _dir . _triDir < 0
                 THEN ordered(hits[2], hits[1])
                 ELSE ordered(hits[1], hits[2])
    IN  IF normal = <<0, 0, 0>> THEN NULL            \* getArea() <= AREA_EPSILON
        ELSE IF VDot(d, d) = 0 THEN NULL             \* e1 = 0 <= s2 = 0: separated
        ELSE overlapOf(triLineHits(<<ta, tb, tc>>, o, s, d, 1, <<>>))

\* ------------------------------------------------------------------------
\* trimToBeneathTriPlane.js, overlapUtils.js, getProjectedOverlaps.js
\* ------------------------------------------------------------------------
\* The height of p above the triangle's plane along the projection vector, up
\* to a positive factor.
heightAbovePlane(tri, p, pv) ==
    LET n == planeNormal(tri)
        sgn == IF VDot(n, pv) < 0 THEN -1 ELSE 1
    IN  sgn * VDot(n, VSub(p, tri.a))

\* NULL when the edge is above the plane (or lies in it), else the part of the
\* edge on or below the plane.
trimToBeneathTriPlane(tri, line, pv) ==
    LET hs == heightAbovePlane(tri, line.start, pv)
        he == heightAbovePlane(tri, line.end, pv)
    IN  IF hs > 0 /\ he > 0 THEN NULL
        ELSE IF hs = 0 /\ he = 0 THEN NULL
        ELSE IF hs <= 0 /\ he <= 0 THEN WholeLine(line)
        ELSE IF hs <= 0 THEN SubLine(line, F0, Frac(hs, hs - he))
        ELSE SubLine(line, Frac(hs, hs - he), F1)

Clamp01(t) == FMin(FMax(t, F0), F1)

\* [changed |-> whether an interval was inserted, overlaps |-> the new list]
appendOverlapRange(line, overlapLine, overlaps) ==
    LET d0 == Clamp01(overlapLine.t0)
        d1 == Clamp01(overlapLine.t1)
    IN  IF d0 = d1 THEN [changed |-> FALSE, overlaps |-> overlaps]
        ELSE [changed |-> TRUE, overlaps |-> Append(overlaps, <<d0, d1>>)]

\* Stable insertion sort by t0.
RECURSIVE insertByT0(_, _)
insertByT0(sorted, iv) ==
    IF sorted = <<>> THEN <<iv>>
    ELSE IF FLt(iv[1], Head(sorted)[1]) THEN <<iv>> \o sorted
    ELSE <<Head(sorted)>> \o insertByT0(Tail(sorted), iv)

RECURSIVE sortByT0(_)
sortByT0(overlaps) ==
    IF overlaps = <<>> THEN <<>>
    ELSE insertByT0(sortByT0(SubSeq(overlaps, 1, Len(overlaps) - 1)),
                    overlaps[Len(overlaps)])

RECURSIVE mergeSorted(_, _)
mergeSorted(done, rest) ==
    IF rest = <<>> THEN done
    ELSE IF done = <<>> THEN mergeSorted(<<Head(rest)>>, Tail(rest))
    ELSE LET prev == done[Len(done)]
             cur == Head(rest)
         IN  IF FLe(cur[1], prev[2])
             THEN mergeSorted([done EXCEPT ![Len(done)] = <<prev[1], FMax(prev[2], cur[2])>>],
                              Tail(rest))
             ELSE mergeSorted(Append(done, cur), Tail(rest))

\* (mutant) the list is sorted and nothing is merged
compressEdgeOverlapsSortsOnly(overlaps) == sortByT0(overlaps)

compressEdgeOverlaps(overlaps) == mergeSorted(<<>>, sortByT0(overlaps))

\* The gaps between 0, the hidden intervals and 1, as visible segments of line;
\* empty gaps produce nothing.
RECURSIVE visibleGaps(_, _, _)
visibleGaps(line, from, overlaps) ==
    IF overlaps = <<>>
    THEN IF FLt(from, F1) THEN <<SubLine(line, from, F1)>> ELSE <<>>
    ELSE LET iv == Head(overlaps)
             gap == IF FLt(from, iv[1]) THEN <<SubLine(line, from, iv[1])>> ELSE <<>>
         IN  gap \o visibleGaps(line, FMax(from, iv[2]), Tail(overlaps))

overlapsToLines(line, overlaps, target) ==
    target \o visibleGaps(line, F0, compressEdgeOverlaps(overlaps))

\* ------------------------------------------------------------------------
\* Meshes.  The triangles a mesh is built from: a floor in the plane y = 0
\* whose edge (0,0,0) -> (8,0,0) lies under roofs at y = 6 (Roof(x0, x1) covers
\* the part of that edge between x0 and x1), a sloped triangle whose plane
\* cuts that edge and the floor, and a vertical fin that cuts the floor.  No
\* other two of them meet.
\* ------------------------------------------------------------------------
Roof(x0, x1) == Tri(<<x0, 6, 0>>, <<x1, 6, 0>>, <<x0, 6, 4>>)
Floor == Tri(<<0, 0, 0>>, <<8, 0, 0>>, <<0, 0, -8>>)
Sloped == Tri(<<0, -4, -2>>, <<8, 4, -2>>, <<4, 0, 2>>)
Fin == Tri(<<2, -2, -4>>, <<4, -2, -4>>, <<2, 2, -4>>)
Occluders == <<Roof(0, 2), Roof(0, 4), Roof(4, 8), Roof(2, 6), Roof(0, 8), Sloped, Fin>>

\* The largest number of triangles a mesh holds besides the floor.
MaxOccluders == 2

RECURSIVE SeqOfSet(_, _)
SeqOfSet(S, i) ==
    IF i > Len(Occluders) THEN <<>>
    ELSE (IF i \in S THEN <<Occluders[i]>> ELSE <<>>) \o SeqOfSet(S, i + 1)

Meshes ==
    {<<Floor>> \o SeqOfSet(S, 1) :
        S \in {T \in SUBSET (1..Len(Occluders)) : Cardinality(T) <= MaxOccluders}}

ProjectionVectors == {<<0, 1, 0>>}

\* ------------------------------------------------------------------------
\* External collaborators: feature-edge extraction, the spatial index
\* ------------------------------------------------------------------------
triEdges(tri) == <<Line3(tri.a, tri.b), Line3(tri.b, tri.c), Line3(tri.c, tri.a)>>

sameSegment(l1, l2) ==
    \/ l1.start = l2.start /\ l1.end = l2.end
    \/ l1.start = l2.end /\ l1.end = l2.start

\* generateEdges: the triangle edges with a single adjacent face, and those
\* whose two adjacent faces do not lie in parallel planes; an edge two faces
\* share is reported once, for the first of them.
isFeatureEdge(mesh, n, e) ==
    \A m \in 1..Len(mesh) :
        (m # n /\ \E f \in 1..3 : sameSegment(triEdges(mesh[m])[f], e))
            => /\ VCross(planeNormal(mesh[m]), planeNormal(mesh[n])) # <<0, 0, 0>>
               /\ m > n

RECURSIVE generateEdgesFrom(_, _)
generateEdgesFrom(mesh, n) ==
    IF n > Len(mesh) THEN <<>>
    ELSE SelectSeq(triEdges(mesh[n]), LAMBDA e : isFeatureEdge(mesh, n, e))
            \o generateEdgesFrom(mesh, n + 1)

generateEdges(mesh) == generateEdgesFrom(mesh, 1)

\* The axis-aligned bounding box of a BVH leaf (maxLeafTris: 1).
Box(tri) ==
    [min |-> <<Min3(tri.a[1], tri.b[1], tri.c[1]), Min3(tri.a[2], tri.b[2], tri.c[2]),
               Min3(tri.a[3], tri.b[3], tri.c[3])>>,
     max |-> <<Max3(tri.a[1], tri.b[1], tri.c[1]), Max3(tri.a[2], tri.b[2], tri.c[2]),
               Max3(tri.a[3], tri.b[3], tri.c[3])>>]

containsPoint(box, p) ==
    \A k \in 1..3 : box.min[k] <= p[k] /\ p[k] <= box.max[k]

\* Box3.intersectsTriangle, decided on the triangle's own bounding box: the
\* index may hand over a triangle this test lets through; the callback then
\* finds no intersection.
boxIntersectsTriangle(box, tri) ==
    \A k \in 1..3 : box.min[k] <= Box(tri).max[k] /\ Box(tri).min[k] <= box.max[k]

\* ExtendedTriangle.intersectsTriangle( tri2, _line, true ) on the triangles
\* of the meshes above: NULL, or the segment the two triangles share.
triangleIntersection(tri1, tri2) ==
    IF tri1 = Floor /\ tri2 = Fin THEN Line3(<<2, 0, -4>>, <<3, 0, -4>>)
    ELSE IF tri1 = Fin /\ tri2 = Floor THEN Line3(<<3, 0, -4>>, <<2, 0, -4>>)
    ELSE IF tri1 = Floor /\ tri2 = Sloped THEN Line3(<<4, 0, -2>>, <<4, 0, 0>>)
    ELSE IF tri1 = Sloped /\ tri2 = Floor THEN Line3(<<4, 0, 0>>, <<4, 0, -2>>)
    ELSE NULL

\* ------------------------------------------------------------------------
\* Program constants, in units of 1e-6
\* ------------------------------------------------------------------------
OFFSET_EPSILON == 1
\* the 1e-6 by which intersectsBounds lowers the box below the edge
BOUNDS_MARGIN == 1

VARIABLES
    scene,      \* per task: the generator's settings, the geometry, the options
    task,       \* per task: the state of its generate() generator object
    scratch,    \* the module-level scratch objects, shared by all tasks
    stale,      \* whether a task has read a scratch object another task wrote last
    host        \* the caller that drives the tasks

vars == <<scene, task, scratch, stale, host>>

\* ------------------------------------------------------------------------
\* Module-level scratch objects: the value and the task that wrote it last
\* ------------------------------------------------------------------------
Cell(v, k) == [v |-> v, by |-> k]
ZeroLine == Line3(<<0, 0, 0>>, <<0, 0, 0>>)
InitScratch ==
    [_tri |-> Cell(Tri(<<0, 0, 0>>, <<0, 0, 0>>, <<0, 0, 0>>), 0),
     _line |-> Cell(ZeroLine, 0),
     _ray |-> Cell(ZeroLine, 0),
     _vec |-> Cell(F0, 0),
     _beneathLine |-> Cell(WholeLine(ZeroLine), 0),
     _overlapLine |-> Cell(WholeLine(ZeroLine), 0)]

\* ------------------------------------------------------------------------
\* generateIntersectionEdges
\* ------------------------------------------------------------------------
\* (mutant) the offset points against the projection axis
offsetVectorDown(pv) ==
    LET ax == DominantAxis(pv)
    IN  [k \in 1..3 |-> IF k = ax THEN -OFFSET_EPSILON ELSE 0]

offsetVector(pv) ==
    LET ax == DominantAxis(pv)
    IN  [k \in 1..3 |-> IF k = ax THEN OFFSET_EPSILON ELSE 0]

\* const vertCount = index ? index.count : posAttr.  MeshBVH gives the
\* geometry an index unless it is built with the option indirect (bvh =
\* "indirect"); without an index vertCount is the attribute object itself,
\* which is not a number.
vertCount(sc) ==
    IF sc.bvh = "indirect" THEN [isNumber |-> FALSE, value |-> 0]
    ELSE [isNumber |-> TRUE, value |-> 3 * Len(sc.mesh)]

nearParallel(tri1, tri2) ==
    LET n1 == planeNormal(tri1)
        n2 == planeNormal(tri2)
    IN  n1 # <<0, 0, 0>> /\ n2 # <<0, 0, 0>> /\ VCross(n1, n2) = <<0, 0, 0>>

\* The intersectsTriangle callback of the detector: the scratch after the call
\* and the edge pushed (NULL when none).  It never asks the traversal to stop.
intersectionCallback(s, k, tri2, pv) ==
    LET tri == s._tri.v
        none == [s |-> s, pushed |-> NULL]
    IN  IF tri = tri2 THEN none
        ELSE IF nearParallel(tri, tri2) THEN none
        ELSE LET hit == triangleIntersection(tri, tri2)
             IN  IF hit = NULL THEN none
                 ELSE LET s1 == [s EXCEPT !._line = Cell(hit, k)]
                      IN  IF ~isLineTriangleEdge(tri, s1._line.v)
                             /\ ~isLineTriangleEdge(tri2, s1._line.v)
                          THEN LET moved == Line3(VAdd(s1._line.v.start, offsetVector(pv)),
                                                  VAdd(s1._line.v.end, offsetVector(pv)))
                               IN  [s |-> [s1 EXCEPT !._line = Cell(moved, k)],
                                    pushed |-> moved]
                          ELSE [s |-> s1, pushed |-> NULL]

\* ------------------------------------------------------------------------
\* ProjectionGenerator.generate: the hidden-line loop's callbacks
\* ------------------------------------------------------------------------
lowestLineY(line) == Min2(line.start[2], line.end[2])
highestLineY(line) == Max2(line.start[2], line.end[2])
highestTriangleY(tri) == Max3(tri.a[2], tri.b[2], tri.c[2])
lowestTriangleY(tri) == Min3(tri.a[2], tri.b[2], tri.c[2])

\* (mutant) the box of the leaf is tested as it is
expandedBoxAsIs(box, line) == box

\* expand the bounding box to the bottom height of the line (line 448)
expandedBox(box, line) ==
    [box EXCEPT !.min[2] = Min2(lowestLineY(line) - BOUNDS_MARGIN, box.min[2])]

FracMax(S) == CHOOSE x \in S : \A y \in S : FLe(y, x)
FracMin(S) == CHOOSE x \in S : \A y \in S : FLe(x, y)

\* Ray.intersectBox for the ray origin + t * d: NOHIT, or the parameter of the
\* point it returns.  A zero direction component gives infinite or NaN slab
\* bounds, which leave the other axes to decide when the origin is within the
\* slab and miss otherwise.
rayIntersectBox(box, origin, d) ==
    LET axes == {k \in 1..3 : d[k] # 0}
        within == \A k \in (1..3) \ axes : box.min[k] <= origin[k] /\ origin[k] <= box.max[k]
        near(k) == IF d[k] > 0 THEN Frac(box.min[k] - origin[k], d[k])
                   ELSE Frac(box.max[k] - origin[k], d[k])
        far(k) == IF d[k] > 0 THEN Frac(box.max[k] - origin[k], d[k])
                  ELSE Frac(box.min[k] - origin[k], d[k])
    IN  IF axes = {} \/ ~within THEN NOHIT
        ELSE LET tmin == FracMax({near(k) : k \in axes})
                 tmax == FracMin({far(k) : k \in axes})
             IN  IF FLt(tmax, tmin) THEN NOHIT
                 ELSE IF FLt(tmax, F0) THEN NOHIT
                 ELSE IF FLe(F0, tmin) THEN tmin ELSE tmax

\* intersectsBounds of the hidden-line query, for the leaf box of tri:
\* the scratch after the call and the answer.
intersectsBounds(s, k, line, tri) ==
    LET box == expandedBox(Box(tri), line)
        near(s2) == [s |-> s2, ret |-> FLt(FMul(s2._vec.v, s2._vec.v), F1)]
        atHit(s1, hit) ==
            IF hit = NOHIT THEN [s |-> s1, ret |-> FALSE]
            ELSE near([s1 EXCEPT !._vec = Cell(hit, k)])
        cast(s1) ==
            IF containsPoint(box, s1._ray.v.start) THEN [s |-> s1, ret |-> TRUE]
            ELSE atHit(s1, rayIntersectBox(box, s1._ray.v.start, s1._ray.v.end))
    IN  cast([s EXCEPT !._ray = Cell(Line3(line.start, delta(line)), k)])

\* (mutant) the early exit tests the end of the last interval only
hidesEntirelyEndOnly(hiddenOverlaps) ==
    IF Len(hiddenOverlaps) # 0
    THEN hiddenOverlaps[Len(hiddenOverlaps)][2] = F1
    ELSE FALSE

\* if we're hiding the edge entirely now then skip further checks
hidesEntirely(hiddenOverlaps) ==
    IF Len(hiddenOverlaps) # 0
    THEN LET last == hiddenOverlaps[Len(hiddenOverlaps)]
         IN  last[1] = F0 /\ last[2] = F1
    ELSE FALSE

\* The occlusion tests of the callback (lines 475-519): the scratch after
\* them and the result of appendOverlapRange.
occlusionOf(s, k, line, tri, hiddenOverlaps, pv) ==
    LET skip(sx) == [s |-> sx, skipped |-> TRUE, changed |-> FALSE, overlaps |-> hiddenOverlaps]
        appended(s2, app) ==
            [s |-> s2, skipped |-> FALSE, changed |-> app.changed, overlaps |-> app.overlaps]
        append(s2) == appended(s2, appendOverlapRange(line, s2._overlapLine.v, hiddenOverlaps))
        overlapIs(s1, overlap) ==
            IF overlap = NULL
            THEN [s |-> s1, skipped |-> FALSE, changed |-> FALSE, overlaps |-> hiddenOverlaps]
            ELSE append([s1 EXCEPT !._overlapLine = Cell(overlap, k)])
        beneathIn(s1) ==
            IF s1._beneathLine.v.t0 = s1._beneathLine.v.t1       \* distance() < DIST_THRESHOLD
            THEN skip(s1)
            ELSE overlapIs(s1, getProjectedLineOverlap(s1._beneathLine.v, tri, pv))
        beneathIs(beneath) ==
            IF beneath = NULL THEN skip(s)
            ELSE beneathIn([s EXCEPT !._beneathLine = Cell(beneath, k)])
    IN  IF highestTriangleY(tri) <= lowestLineY(line) THEN skip(s)
        ELSE IF isProjectedTriangleDegenerate(tri, pv) THEN skip(s)
        ELSE IF isLineTriangleEdge(tri, line) THEN skip(s)
        ELSE IF highestLineY(line) < lowestTriangleY(tri)
             THEN beneathIs(WholeLine(line))
             ELSE beneathIs(trimToBeneathTriPlane(tri, line, pv))

\* (mutant) the callback appends the interval and does not merge
intersectsTriangleNoCompress(s, k, line, tri, hiddenOverlaps, pv) ==
    LET return(o) == [s |-> o.s, hiddenOverlaps |-> o.overlaps,
                      ret |-> ~o.skipped /\ hidesEntirely(o.overlaps)]
    IN  return(occlusionOf(s, k, line, tri, hiddenOverlaps, pv))

\* The intersectsTriangle callback of the hidden-line query (lines 473-533):
\* the scratch and the edge's hiddenOverlaps after the call, and the value
\* returned (TRUE stops the traversal).
intersectsTriangle(s, k, line, tri, hiddenOverlaps, pv) ==
    LET return(o, merged) == [s |-> o.s, hiddenOverlaps |-> merged,
                              ret |-> ~o.skipped /\ hidesEntirely(merged)]
        compress(o) == return(o, IF o.changed THEN compressEdgeOverlaps(o.overlaps)
                                 ELSE o.overlaps)
    IN  compress(occlusionOf(s, k, line, tri, hiddenOverlaps, pv))

\* ------------------------------------------------------------------------
\* ProjectionGenerator.generate as a resumable task
\*
\* pc: "new" (generator object created), "suspended" (at a yield),
\* "done" (returned finalEdges), "threw", or the statement it executes next:
\*   start        lines 380-399   isect_head   lines 33-53
\*   isect_visit  lines 53-96     isect_end    lines 98-104
\*   sort         lines 397-426   hl_init      lines 429-430
\*   hl_head      lines 431-443   hl_visit     lines 443-535
\*   hl_end       lines 537-553
\* yieldAt names the yield a suspended task stands at, resumeAt the statement
\* that follows it; progress is the fraction onProgress was last called with.
\* ------------------------------------------------------------------------
Running == {"start", "isect_head", "isect_visit", "isect_end", "sort",
            "hl_init", "hl_head", "hl_visit", "hl_end"}

NewTask ==
    [pc |-> "new", resumeAt |-> "start", yieldAt |-> "none", error |-> "none",
     i |-> 0, edges |-> <<>>, results |-> <<>>, visited |-> {},
     hiddenOverlaps |-> <<>>, finalEdges |-> <<>>, progress |-> NOHIT]

suspend(t, at, resume) == [t EXCEPT !.pc = "suspended", !.yieldAt = at, !.resumeAt = resume]

\* task.next() on a task at rest
next(t) == [t EXCEPT !.pc = t.resumeAt, !.yieldAt = "none"]

\* lines 380-399
stepStart(sc, t) ==
    IF sc.bvh = "missing"
    THEN [t EXCEPT !.pc = "threw", !.error = "TypeError"]     \* bvh.geometry of undefined
    ELSE IF sc.includeIntersectionEdges
         THEN [t EXCEPT !.edges = generateEdges(sc.mesh), !.pc = "isect_head",
                        !.i = 0, !.results = <<>>]
         ELSE [t EXCEPT !.edges = generateEdges(sc.mesh), !.pc = "sort"]

\* lines 33-53: load the next triangle into _tri and start its query, or
\* return the edges found (line 108) to generate, which appends them (397).
stepIntersectionHead(sc, t, s, k) ==
    IF vertCount(sc).isNumber /\ t.i < vertCount(sc).value     \* i < NaN is false
    THEN [t |-> [t EXCEPT !.pc = IF Len(sc.mesh) = 0 THEN "isect_end" ELSE "isect_visit",
                          !.visited = {}],
          s |-> [s EXCEPT !._tri = Cell(sc.mesh[(t.i \div 3) + 1], k)]]
    ELSE [t |-> [t EXCEPT !.edges = t.edges \o t.results, !.pc = "sort"], s |-> s]

\* (mutant) the detector yields between two triangles of one query
stepIntersectionVisitYields(sc, t, s, k, j) ==
    LET tri2 == sc.mesh[j]
        visited == t.visited \cup {j}
        returned(hit) ==
            [t |-> [t EXCEPT !.visited = visited,
                             !.results = IF hit.pushed = NULL THEN t.results
                                         ELSE Append(t.results, hit.pushed),
                             !.pc = IF visited = 1..Len(sc.mesh) THEN "isect_end"
                                    ELSE "suspended",
                             !.yieldAt = IF visited = 1..Len(sc.mesh) THEN "none"
                                         ELSE "intersection",
                             !.resumeAt = "isect_visit"],
             s |-> hit.s]
    IN  IF boxIntersectsTriangle(Box(tri2), s._tri.v)
        THEN returned(intersectionCallback(s, k, tri2, sc.pv))
        ELSE returned([s |-> s, pushed |-> NULL])

\* lines 53-96: the index hands over triangle j of the mesh
stepIntersectionVisit(sc, t, s, k, j) ==
    LET tri2 == sc.mesh[j]
        visited == t.visited \cup {j}
        returned(hit) ==
            [t |-> [t EXCEPT !.visited = visited,
                             !.results = IF hit.pushed = NULL THEN t.results
                                         ELSE Append(t.results, hit.pushed),
                             !.pc = IF visited = 1..Len(sc.mesh) THEN "isect_end"
                                    ELSE "isect_visit"],
             s |-> hit.s]
    IN  IF boxIntersectsTriangle(Box(tri2), s._tri.v)
        THEN returned(intersectionCallback(s, k, tri2, sc.pv))
        ELSE returned([s |-> s, pushed |-> NULL])

\* lines 98-104: timeUp is delta > iterationTime
stepIntersectionEnd(t, timeUp) ==
    IF timeUp
    THEN suspend([t EXCEPT !.i = t.i + 3], "intersection", "isect_head")
    ELSE [t EXCEPT !.i = t.i + 3, !.pc = "isect_head"]

RECURSIVE insertByKey(_, _, _)
insertByKey(sorted, line, ax) ==
    IF sorted = <<>> THEN <<line>>
    ELSE IF Min2(line.start[ax], line.end[ax])
              < Min2(Head(sorted).start[ax], Head(sorted).end[ax])
         THEN <<line>> \o sorted
         ELSE <<Head(sorted)>> \o insertByKey(Tail(sorted), line, ax)

RECURSIVE sortLowestFirst(_, _)
sortLowestFirst(edges, ax) ==
    IF edges = <<>> THEN <<>>
    ELSE insertByKey(sortLowestFirst(SubSeq(edges, 1, Len(edges) - 1), ax),
                     edges[Len(edges)], ax)

\* (mutant) the yield that follows the sort sits inside if ( sortEdges )
stepSortYieldsIfSorted(sc, t) ==
    IF sc.sortEdges
    THEN suspend([t EXCEPT !.edges = sortLowestFirst(t.edges, DominantAxis(sc.pv))],
                 "candidates", "hl_init")
    ELSE [t EXCEPT !.pc = "hl_init"]

\* lines 401-426
stepSort(sc, t) ==
    suspend([t EXCEPT !.edges = IF sc.sortEdges
                                THEN sortLowestFirst(t.edges, DominantAxis(sc.pv))
                                ELSE t.edges],
            "candidates", "hl_init")

\* lines 429-431
stepTrimInit(t) == [t EXCEPT !.finalEdges = <<>>, !.i = 0, !.pc = "hl_head"]

\* Triangles of the mesh whose leaf box the query of line lets through.
admitted(sc, s, k, line) ==
    {j \in 1..Len(sc.mesh) : intersectsBounds(s, k, line, sc.mesh[j]).ret}

\* (mutant) the loop does not test the edge for degeneracy
stepTrimHeadKeepsDegenerate(sc, t, s, k) ==
    IF t.i < Len(t.edges)
    THEN LET line == t.edges[t.i + 1]
         IN  [t EXCEPT !.hiddenOverlaps = <<>>, !.visited = {},
                       !.pc = IF admitted(sc, s, k, line) = {} THEN "hl_end"
                              ELSE "hl_visit"]
    ELSE [t EXCEPT !.pc = "done"]

\* (mutant) the loop does not give the edge a new hiddenOverlaps
stepTrimHeadKeepsOverlaps(sc, t, s, k) ==
    IF t.i < Len(t.edges)
    THEN LET line == t.edges[t.i + 1]
         IN  IF isProjectedLineDegenerate(line, sc.pv)
             THEN [t EXCEPT !.i = t.i + 1]
             ELSE [t EXCEPT !.visited = {},
                            !.pc = IF admitted(sc, s, k, line) = {} THEN "hl_end"
                                   ELSE "hl_visit"]
    ELSE [t EXCEPT !.pc = "done"]

\* lines 431-443
stepTrimHead(sc, t, s, k) ==
    IF t.i < Len(t.edges)
    THEN LET line == t.edges[t.i + 1]
         IN  IF isProjectedLineDegenerate(line, sc.pv)
             THEN [t EXCEPT !.i = t.i + 1]
             ELSE [t EXCEPT !.hiddenOverlaps = <<>>, !.visited = {},
                            !.pc = IF admitted(sc, s, k, line) = {} THEN "hl_end"
                                   ELSE "hl_visit"]
    ELSE [t EXCEPT !.pc = "done"]

\* lines 443-535: the index reaches the leaf of triangle j
stepTrimVisit(sc, t, s, k, j) ==
    LET line == t.edges[t.i + 1]
        visited == t.visited \cup {j}
        returned(r) ==
            [t |-> [t EXCEPT !.visited = visited,
                             !.hiddenOverlaps = r.hiddenOverlaps,
                             !.pc = IF r.ret \/ admitted(sc, s, k, line) \subseteq visited
                                    THEN "hl_end" ELSE "hl_visit"],
             s |-> r.s]
        inLeaf(b) ==
            returned(intersectsTriangle(b.s, k, line, sc.mesh[j], t.hiddenOverlaps, sc.pv))
    IN  inLeaf(intersectsBounds(s, k, line, sc.mesh[j]))

\* (mutant) the time check and the yield come before overlapsToLines
stepTrimEndYieldsFirst(sc, t, timeUp) ==
    LET line == t.edges[t.i + 1]
    IN  IF timeUp
        THEN suspend(t, "edge", "hl_end")
        ELSE [t EXCEPT !.finalEdges = overlapsToLines(line, t.hiddenOverlaps, t.finalEdges),
                       !.i = t.i + 1, !.pc = "hl_head"]

\* (mutant) an edge nothing hides is not handed to overlapsToLines
stepTrimEndDropsVisible(sc, t, timeUp) ==
    LET line == t.edges[t.i + 1]
        t1 == IF t.hiddenOverlaps = <<>> THEN t
              ELSE [t EXCEPT !.finalEdges = overlapsToLines(line, t.hiddenOverlaps, t.finalEdges)]
    IN  IF timeUp
        THEN suspend([t1 EXCEPT !.i = t.i + 1], "edge", "hl_head")
        ELSE [t1 EXCEPT !.i = t.i + 1, !.pc = "hl_head"]

\* (mutant) the fraction counts the edge just handled
stepTrimEndReportsNext(sc, t, timeUp) ==
    LET line == t.edges[t.i + 1]
        t1 == [t EXCEPT !.finalEdges = overlapsToLines(line, t.hiddenOverlaps, t.finalEdges)]
    IN  IF timeUp
        THEN IF sc.onProgress = "throws"
             THEN [t1 EXCEPT !.pc = "threw", !.error = "onProgress"]
             ELSE suspend([t1 EXCEPT !.i = t.i + 1,
                                     !.progress = IF sc.onProgress = "none" THEN t.progress
                                                  ELSE Frac(t.i + 1, Len(t.edges))],
                          "edge", "hl_head")
        ELSE [t1 EXCEPT !.i = t.i + 1, !.pc = "hl_head"]

\* lines 537-553: timeUp is delta > iterationTime
stepTrimEnd(sc, t, timeUp) ==
    LET line == t.edges[t.i + 1]
        t1 == [t EXCEPT !.finalEdges = overlapsToLines(line, t.hiddenOverlaps, t.finalEdges)]
    IN  IF timeUp
        THEN IF sc.onProgress = "throws"
             THEN [t1 EXCEPT !.pc = "threw", !.error = "onProgress"]
             ELSE suspend([t1 EXCEPT !.i = t.i + 1,
                                     !.progress = IF sc.onProgress = "none" THEN t.progress
                                                  ELSE Frac(t.i, Len(t.edges))],
                          "edge", "hl_head")
        ELSE [t1 EXCEPT !.i = t.i + 1, !.pc = "hl_head"]

\* ------------------------------------------------------------------------
\* The worker's progress callback (part_000 lines 7-22), host.outbox the
\* messages posted so far; elapsed is currTime - prevTime >= 10.
\* ------------------------------------------------------------------------
postMessage(h, message) == [h EXCEPT !.outbox = Append(h.outbox, message)]

onProgressCallback(h, progress, elapsed) ==
    IF elapsed \/ progress = F1
    THEN postMessage(h, [error |-> "null", progress |-> progress])
    ELSE h

\* ------------------------------------------------------------------------
\* Actions of a task.  One thread runs everything: a task steps only while
\* it is the one inside next().
\* ------------------------------------------------------------------------
Start(k) ==
    /\ task[k].pc = "start"
    /\ task' = [task EXCEPT ![k] = stepStart(scene[k], task[k])]
    /\ UNCHANGED <<scene, scratch, stale, host>>

IntersectionHead(k) ==
    /\ task[k].pc = "isect_head"
    /\ LET becomes(r) == task' = [task EXCEPT ![k] = r.t] /\ scratch' = r.s
       IN  becomes(stepIntersectionHead(scene[k], task[k], scratch, k))
    /\ UNCHANGED <<scene, stale, host>>

IntersectionVisit(k) ==
    /\ task[k].pc = "isect_visit"
    /\ \E j \in (1..Len(scene[k].mesh)) \ task[k].visited :
          LET becomes(r) == task' = [task EXCEPT ![k] = r.t] /\ scratch' = r.s
          IN  becomes(stepIntersectionVisit(scene[k], task[k], scratch, k, j))
    /\ stale' = (stale \/ scratch._tri.by # k)
    /\ UNCHANGED <<scene, host>>

IntersectionEnd(k) ==
    /\ task[k].pc = "isect_end"
    /\ \E timeUp \in BOOLEAN :
          task' = [task EXCEPT ![k] = stepIntersectionEnd(task[k], timeUp)]
    /\ UNCHANGED <<scene, scratch, stale, host>>

Sort(k) ==
    /\ task[k].pc = "sort"
    /\ task' = [task EXCEPT ![k] = stepSort(scene[k], task[k])]
    /\ UNCHANGED <<scene, scratch, stale, host>>

TrimInit(k) ==
    /\ task[k].pc = "hl_init"
    /\ task' = [task EXCEPT ![k] = stepTrimInit(task[k])]
    /\ UNCHANGED <<scene, scratch, stale, host>>

TrimHead(k) ==
    /\ task[k].pc = "hl_head"
    /\ task' = [task EXCEPT ![k] = stepTrimHead(scene[k], task[k], scratch, k)]
    /\ UNCHANGED <<scene, scratch, stale, host>>

TrimVisit(k) ==
    /\ task[k].pc = "hl_visit"
    /\ \E j \in admitted(scene[k], scratch, k, task[k].edges[task[k].i + 1]) \ task[k].visited :
          LET becomes(r) == task' = [task EXCEPT ![k] = r.t] /\ scratch' = r.s
          IN  becomes(stepTrimVisit(scene[k], task[k], scratch, k, j))
    /\ UNCHANGED <<scene, stale, host>>

\* onProgress is the worker's callback when the task runs in the worker
TrimEnd(k) ==
    /\ task[k].pc = "hl_end"
    /\ \E timeUp \in BOOLEAN :
          /\ task' = [task EXCEPT ![k] = stepTrimEnd(scene[k], task[k], timeUp)]
          /\ IF timeUp /\ scene[k].onProgress = "worker"
             THEN \E elapsed \in BOOLEAN :
                      host' = onProgressCallback(host, Frac(task[k].i, Len(task[k].edges)),
                                                 elapsed)
             ELSE host' = host
    /\ UNCHANGED <<scene, scratch, stale>>

TaskStep(k) ==
    \/ Start(k)
    \/ IntersectionHead(k)
    \/ IntersectionVisit(k)
    \/ IntersectionEnd(k)
    \/ Sort(k)
    \/ TrimInit(k)
    \/ TrimHead(k)
    \/ TrimVisit(k)
    \/ TrimEnd(k)

AtRest == \A k \in DOMAIN task : task[k].pc \notin Running

\* ------------------------------------------------------------------------
\* A caller that drives one task to completion
\* (let result = task.next(); while ( ! result.done ) result = task.next();)
\* ------------------------------------------------------------------------
Scenes ==
    [pv : ProjectionVectors, mesh : Meshes, sortEdges : BOOLEAN,
     includeIntersectionEdges : BOOLEAN, onProgress : {"none", "ok"}, bvh : {"ok"}]

Init ==
    /\ scene \in [{1} -> Scenes]
    /\ task = [k \in {1} |-> NewTask]
    /\ scratch = InitScratch
    /\ stale = FALSE
    /\ host = [kind |-> "loop"]

LoopNext ==
    /\ AtRest
    /\ \E k \in DOMAIN task :
          /\ task[k].pc \in {"new", "suspended"}
          /\ task' = [task EXCEPT ![k] = next(task[k])]
    /\ UNCHANGED <<scene, scratch, stale, host>>

Next ==
    \/ LoopNext
    \/ \E k \in {1} : TaskStep(k)

Spec == Init /\ [][Next]_vars

\* ------------------------------------------------------------------------
\* Properties of the hidden-line loop
\* ------------------------------------------------------------------------
Tasks == DOMAIN task

\* The candidate edge a task is working on while it is in a query.
currentLine(t) == t.edges[t.i + 1]

\* An interval list as the spec describes it: each 0 <= t0 <= t1 <= 1,
\* sorted by t0, and no two intervals overlapping or touching.
SortedDisjoint(h) ==
    /\ \A n \in 1..Len(h) : FLe(F0, h[n][1]) /\ FLe(h[n][1], h[n][2]) /\ FLe(h[n][2], F1)
    /\ \A n \in 1..(Len(h) - 1) : FLt(h[n][2], h[n + 1][1])

\* The hidden intervals of line after the callback has run on every triangle
\* of js, none of them stopping the traversal.
RECURSIVE hiddenAfterAll(_, _, _, _)
hiddenAfterAll(sc, line, js, h) ==
    IF js = {} THEN h
    ELSE LET j == CHOOSE x \in js : TRUE
         IN  hiddenAfterAll(sc, line, js \ {j},
                 intersectsTriangle(InitScratch, 0, line, sc.mesh[j], h, sc.pv).hiddenOverlaps)

\* The output after the first n candidate edges, each edge's intervals
\* taken from a traversal that visits every admitted triangle.
RECURSIVE convertedUpTo(_, _, _)
convertedUpTo(sc, edges, n) ==
    IF n = 0 THEN <<>>
    ELSE LET line == edges[n]
             before == convertedUpTo(sc, edges, n - 1)
         IN  IF isProjectedLineDegenerate(line, sc.pv) THEN before
             ELSE overlapsToLines(line,
                      hiddenAfterAll(sc, line, admitted(sc, InitScratch, 0, line), <<>>),
                      before)

\* The t-ranges of a list of sub-segments.
RangesOf(segs) == [n \in 1..Len(segs) |-> <<segs[n].t0, segs[n].t1>>]

\* ivs, put in order, tile [0, 1]: no gap, no overlap, no empty piece.
Tiles01(ivs) ==
    LET o == sortByT0(ivs)
    IN  /\ Len(o) > 0
        /\ o[1][1] = F0
        /\ o[Len(o)][2] = F1
        /\ \A n \in 1..Len(o) : FLt(o[n][1], o[n][2])
        /\ \A n \in 1..(Len(o) - 1) : o[n][2] = o[n + 1][1]

\* What holds of task k when it stands at a yield.
AtAYield(k) ==
    LET t == task[k]
        sc == scene[k]
    IN  t.pc = "suspended" =>
        \/ /\ t.yieldAt = "intersection"
           /\ t.resumeAt = "isect_head"
           /\ t.i >= 3 /\ t.i % 3 = 0
           /\ t.visited = 1..Len(sc.mesh)
        \/ /\ t.yieldAt = "candidates"
           /\ t.resumeAt = "hl_init"
           /\ t.finalEdges = <<>>
        \/ /\ t.yieldAt = "edge"
           /\ t.resumeAt = "hl_head"
           /\ t.i >= 1
           /\ \/ hidesEntirely(t.hiddenOverlaps)
              \/ admitted(sc, InitScratch, 0, t.edges[t.i]) \subseteq t.visited
           /\ t.finalEdges = convertedUpTo(sc, t.edges, t.i)

\* C4: a task is suspended only at one of the three yields; at the yield of
\* the intersection pass the query of the triangle just handled has visited
\* the whole mesh, at the yield of the hidden-line loop the query of the
\* edge just handled is over and the output holds the visible segments of
\* every edge handled so far, and the yield between the two phases is taken
\* by every task that reaches the hidden-line loop.
YieldsOnlyAtBoundaries ==
    /\ [](\A k \in Tasks : AtAYield(k))
    /\ [][\A k \in Tasks :
             task[k].pc = "sort" =>
                 task'[k].pc = "suspended" /\ task'[k].yieldAt = "candidates"]_vars

\* a task stands at the yield of the hidden-line loop, after an edge that
\* two triangles hide in part
YieldsOnlyAtBoundariesWitness ==
    \E k \in Tasks :
        /\ task[k].pc = "suspended"
        /\ task[k].yieldAt = "edge"
        /\ Len(task[k].hiddenOverlaps) = 2
        /\ Len(task[k].finalEdges) >= 2

\* C7: whenever the per-triangle callback has returned, the edge's hidden
\* intervals are sorted by t0, pairwise disjoint without touching, and lie
\* in [0, 1].
HiddenIntervalsSortedDisjoint ==
    \A k \in Tasks :
        task[k].pc \in {"hl_visit", "hl_end"} => SortedDisjoint(task[k].hiddenOverlaps)

\* the callback has returned for three triangles and left two intervals
HiddenIntervalsSortedDisjointWitness ==
    \E k \in Tasks :
        /\ task[k].pc = "hl_end"
        /\ Cardinality(task[k].visited) = 3
        /\ Len(task[k].hiddenOverlaps) = 2

\* C8: the segments overlapsToLines appends for an edge are pieces of that
\* edge, and their t-ranges together with the hidden intervals tile [0, 1];
\* an edge with no hidden interval is appended whole.
VisibleComplementsHidden ==
    [][\A k \in Tasks :
          task[k].pc = "hl_end" =>
              LET line == currentLine(task[k])
                  h == task[k].hiddenOverlaps
                  before == task[k].finalEdges
                  after == task'[k].finalEdges
                  segs == SubSeq(after, Len(before) + 1, Len(after))
              IN  /\ Len(after) >= Len(before)
                  /\ SubSeq(after, 1, Len(before)) = before
                  /\ \A n \in 1..Len(segs) :
                        segs[n].start = line.start /\ segs[n].end = line.end
                  /\ Tiles01(h \o RangesOf(segs))
                  /\ h = <<>> => segs = <<WholeLine(line)>>]_vars

\* an edge with two hidden intervals has been converted and its last
\* visible segment lies strictly inside the edge
VisibleComplementsHiddenWitness ==
    \E k \in Tasks :
        LET t == task[k]
        IN  /\ t.pc \in {"hl_head", "suspended"}
            /\ t.i >= 1
            /\ Len(t.hiddenOverlaps) = 2
            /\ Len(t.finalEdges) >= 1
            /\ LET seg == t.finalEdges[Len(t.finalEdges)]
               IN  /\ seg.start = t.edges[t.i].start /\ seg.end = t.edges[t.i].end
                   /\ FLt(F0, seg.t0) /\ FLt(seg.t1, F1)

\* C10: the traversal of an edge goes on exactly while the hidden intervals
\* are not the single interval [0, 1], and when it is over the edge's
\* visible segments are those of a traversal that visits every triangle.
EarlyExitSound ==
    \A k \in Tasks :
        LET t == task[k]
            sc == scene[k]
        IN  /\ t.pc = "hl_visit" => ~(t.hiddenOverlaps # <<>> /\ t.hiddenOverlaps[Len(t.hiddenOverlaps)] = <<F0, F1>>)
            /\ t.pc = "hl_end" =>
                  LET line == currentLine(t)
                      all == admitted(sc, InitScratch, 0, line)
                  IN  /\ ~(all \subseteq t.visited) => t.hiddenOverlaps = <<<<F0, F1>>>>
                      /\ overlapsToLines(line, t.hiddenOverlaps, <<>>)
                           = overlapsToLines(line, hiddenAfterAll(sc, line, all, <<>>), <<>>)

\* a traversal has stopped with triangles left, after two triangles whose
\* intervals merged into [0, 1]
EarlyExitSoundWitness ==
    \E k \in Tasks :
        LET t == task[k]
        IN  /\ t.pc = "hl_end"
            /\ Cardinality(t.visited) >= 2
            /\ ~(admitted(scene[k], InitScratch, 0, currentLine(t)) \subseteq t.visited)
            /\ t.hiddenOverlaps = <<<<F0, F1>>>>

\* ------------------------------------------------------------------------
\* compressEdgeOverlaps on its own: a list of intervals is compressed in
\* place, twice.
\* ------------------------------------------------------------------------
MaxLen == 3
GridSteps == 3

Grid == {Frac(i, GridSteps) : i \in 0..GridSteps}
Intervals == {iv \in Grid \X Grid : FLe(iv[1], iv[2])}
IntervalLists == UNION {[1..n -> Intervals] : n \in 0..MaxLen}

InitCompress ==
    /\ scene = <<>>
    /\ task = <<>>
    /\ scratch = InitScratch
    /\ stale = FALSE
    /\ \E input \in IntervalLists :
          host = [kind |-> "compress", calls |-> 0, input |-> input,
                  overlaps |-> input, before |-> input]

Compress ==
    /\ host.kind = "compress"
    /\ host.calls < 2
    /\ host' = [host EXCEPT !.calls = host.calls + 1,
                            !.before = host.overlaps,
                            !.overlaps = compressEdgeOverlaps(host.overlaps)]
    /\ UNCHANGED <<scene, task, scratch, stale>>

NextCompress == Compress

SpecCompress == InitCompress /\ [][NextCompress]_vars

\* x lies in one of the intervals of the list
Covers(overlaps, x) ==
    \E n \in 1..Len(overlaps) : FLe(overlaps[n][1], x) /\ FLe(x, overlaps[n][2])

\* The grid points and the midpoints between them: two lists of intervals
\* with end points on the grid have the same union iff they cover the same
\* points of this set.
Probes == {Frac(i, 2 * GridSteps) : i \in 0..(2 * GridSteps)}

\* C9: compressEdgeOverlaps leaves a list that is sorted by t0, pairwise
\* disjoint, and has the union of the input; a second call changes nothing.
CompressMergesCompletely ==
    (host.kind = "compress" /\ host.calls >= 1) =>
        /\ SortedDisjoint(host.overlaps)
        /\ \A x \in Probes : Covers(host.overlaps, x) <=> Covers(host.input, x)
        /\ host.calls = 2 => host.overlaps = host.before

\* a list of three intervals has been compressed twice and two of the
\* three were merged
CompressMergesCompletelyWitness ==
    /\ host.kind = "compress"
    /\ host.calls = 2
    /\ Len(host.input) = 3
    /\ Len(host.overlaps) = 2
    /\ \E n \in 1..2 : host.input[n][1] = host.input[n + 1][2]

\* ------------------------------------------------------------------------
\* ProjectionGenerator.generateAsync (lines 346-378)
\*
\* host.promise is the promise handed back, host.signal the AbortSignal of
\* the options ("none" when there is none), host.frame the function at the
\* bottom of the call stack while run() is inside task.next() ("executor":
\* the promise executor, "raf": a requestAnimationFrame callback),
\* host.rafPending whether run is scheduled for the next frame, and
\* host.uncaught the exception that left a requestAnimationFrame callback.
\* ------------------------------------------------------------------------
AbortError == [error |-> "ProjectionGenerator: Process aborted via AbortSignal."]

\* class EdgeSet (lines 275-281): an object with the field edges
EdgeSet(edges) == [edges |-> edges]

\* resolve and reject of a promise: the first call settles it
settle(promise, state, value) ==
    IF promise.state = "pending"
    THEN [state |-> state, value |-> value, calls |-> promise.calls + 1]
    ELSE [promise EXCEPT !.calls = promise.calls + 1]

\* (mutant) run() does not look at the signal
runUnchecked(h, t) ==
    [h |-> [h EXCEPT !.inRun = TRUE], t |-> next(t)]

\* lines 354-363: run() up to the call of task.next()
run(h, t) ==
    IF h.signal = "aborted"
    THEN [h |-> [h EXCEPT !.promise = settle(h.promise, "rejected", AbortError)], t |-> t]
    ELSE [h |-> [h EXCEPT !.inRun = TRUE], t |-> next(t)]

\* lines 346-352: the executor creates the task and calls run()
GenerateAsync ==
    /\ host.kind = "async"
    /\ host.promise.state = "none"
    /\ LET called(r) == host' = r.h /\ task' = [task EXCEPT ![1] = r.t]
       IN  called(run([host EXCEPT !.promise = [state |-> "pending", value |-> NULL, calls |-> 0],
                                   !.frame = "executor"],
                      task[1]))
    /\ UNCHANGED <<scene, scratch, stale>>

\* lines 363-373: task.next() has returned or thrown.  An exception leaves
\* run(); the promise constructor turns one that leaves the executor into a
\* rejection, one that leaves a requestAnimationFrame callback is reported
\* by the browser as uncaught.
RunReturns ==
    /\ host.kind = "async"
    /\ host.inRun
    /\ AtRest
    /\ host' =
          LET h == [host EXCEPT !.inRun = FALSE, !.frame = "none"]
          IN  CASE task[1].pc = "done" ->
                       [h EXCEPT !.promise = settle(h.promise, "resolved",
                                                    EdgeSet(task[1].finalEdges))]
                [] task[1].pc = "suspended" ->
                       [h EXCEPT !.rafPending = TRUE]
                [] task[1].pc = "threw" ->
                       IF host.frame = "executor"
                       THEN [h EXCEPT !.promise = settle(h.promise, "rejected",
                                                         [error |-> task[1].error])]
                       ELSE [h EXCEPT !.uncaught = [error |-> task[1].error]]
    /\ UNCHANGED <<scene, task, scratch, stale>>

\* the browser calls run (line 371) at the next frame
AnimationFrame ==
    /\ host.kind = "async"
    /\ host.rafPending
    /\ ~host.inRun
    /\ LET called(r) == host' = r.h /\ task' = [task EXCEPT ![1] = r.t]
       IN  called(run([host EXCEPT !.rafPending = FALSE, !.frame = "raf"], task[1]))
    /\ UNCHANGED <<scene, scratch, stale>>

\* the owner of the signal aborts it
Abort ==
    /\ host.kind = "async"
    /\ host.signal = "live"
    /\ host' = [host EXCEPT !.signal = "aborted"]
    /\ UNCHANGED <<scene, task, scratch, stale>>

MaxAsyncTriangles == 2

AsyncScenes ==
    [pv : ProjectionVectors, mesh : {m \in Meshes : Len(m) <= MaxAsyncTriangles},
     sortEdges : {TRUE}, includeIntersectionEdges : BOOLEAN,
     onProgress : {"none", "ok", "throws"}, bvh : {"ok", "missing"}]

InitAsync ==
    /\ scene \in [{1} -> AsyncScenes]
    /\ task = [k \in {1} |-> NewTask]
    /\ scratch = InitScratch
    /\ stale = FALSE
    /\ \E signal \in {"none", "live", "aborted"} :
          host = [kind |-> "async", signal |-> signal, inRun |-> FALSE, frame |-> "none",
                  rafPending |-> FALSE, uncaught |-> NULL,
                  promise |-> [state |-> "none", value |-> NULL, calls |-> 0]]

NextAsync ==
    \/ GenerateAsync
    \/ RunReturns
    \/ AnimationFrame
    \/ Abort
    \/ \E k \in {1} : TaskStep(k)

SpecAsync == InitAsync /\ [][NextAsync]_vars

\* C1: run() calls task.next() only when the signal is not aborted, the
\* first call included; a call of run() that finds the signal aborted
\* rejects the promise with the abort Error and neither resumes the task nor
\* schedules a frame; and once the promise is rejected with the abort Error
\* the task is never resumed and the promise never changes.
Resumed == task[1].pc \in {"new", "suspended"} /\ task'[1].pc \notin {"new", "suspended"}
RunCalled == host.promise.state = "none" \/ (host.rafPending /\ ~host'.rafPending)
Aborted(h) == h.promise.state = "rejected" /\ h.promise.value = AbortError

AbortStopsTheTask ==
    [][host.kind = "async" =>
          /\ Resumed => host.signal # "aborted"
          /\ (RunCalled /\ host.signal = "aborted") =>
                 /\ Aborted(host')
                 /\ task' = task
                 /\ ~host'.rafPending /\ ~host'.inRun
          /\ Aborted(host) => (task' = task /\ host'.promise = host.promise)]_vars

\* the promise is rejected with the abort Error while the task stands at
\* the yield of the hidden-line loop with part of its output
AbortStopsTheTaskWitness ==
    /\ host.kind = "async"
    /\ Aborted(host)
    /\ task[1].pc = "suspended"
    /\ task[1].yieldAt = "edge"
    /\ Len(task[1].finalEdges) >= 1

\* C6: when the task has thrown and run() is left, the promise is rejected
\* with the error the task threw; when the task has finished it is resolved;
\* and resolve or reject has been called at most once.
AlwaysSettles ==
    (host.kind = "async" /\ ~host.inRun) =>
        /\ task[1].pc = "threw" =>
              (host.promise.state = "rejected"
                   /\ host.promise.value = [error |-> task[1].error])
        /\ task[1].pc = "done" => host.promise.state = "resolved"
        /\ host.promise.calls <= 1

\* ------------------------------------------------------------------------
\* The worker (part_000 lines 4-73).  host.data is the request, host.pc
\* "waiting" before onmessage runs, "loop" inside the while loop of lines
\* 47-51, "finished" when onmessage has returned.
\* ------------------------------------------------------------------------
\* (mutant) the handler ends without a last message
endsSilently(h, message) == [h EXCEPT !.pc = "finished"]

\* the last postMessage of the handler (lines 54-60 or 64-69)
endsWith(h, message) == [postMessage(h, message) EXCEPT !.pc = "finished"]

\* lines 53-71 for the value generate returned: reading attributes.position
\* of an object without the field attributes throws a TypeError
lastMessage(value) ==
    IF "attributes" \in DOMAIN value
    THEN [result |-> value.attributes.position.array, error |-> "null", progress |-> F1]
    ELSE [error |-> "TypeError", progress |-> F1]

\* lines 24-45: options.sortEdges of a request without options throws
OnMessage ==
    /\ host.kind = "worker"
    /\ host.pc = "waiting"
    /\ IF host.data.options = "missing"
       THEN /\ host' = endsWith(host, [error |-> "TypeError", progress |-> F1])
            /\ task' = task
       ELSE /\ host' = [host EXCEPT !.pc = "loop"]
            /\ task' = [task EXCEPT ![1] = next(task[1])]
    /\ UNCHANGED <<scene, scratch, stale>>

\* lines 47-71: task.next() has returned or thrown
WorkerLoop ==
    /\ host.kind = "worker"
    /\ host.pc = "loop"
    /\ AtRest
    /\ CASE task[1].pc = "suspended" ->
                /\ task' = [task EXCEPT ![1] = next(task[1])]
                /\ host' = host
         [] task[1].pc = "done" ->
                /\ host' = endsWith(host, lastMessage(EdgeSet(task[1].finalEdges)))
                /\ task' = task
         [] task[1].pc = "threw" ->
                /\ host' = endsWith(host, [error |-> task[1].error, progress |-> F1])
                /\ task' = task
    /\ UNCHANGED <<scene, scratch, stale>>

MaxWorkerTriangles == 2

WorkerScenes ==
    [pv : ProjectionVectors, mesh : {m \in Meshes : Len(m) <= MaxWorkerTriangles},
     sortEdges : {TRUE}, includeIntersectionEdges : BOOLEAN,
     onProgress : {"worker"}, bvh : {"ok"}]

InitWorker ==
    /\ scene \in [{1} -> WorkerScenes]
    /\ task = [k \in {1} |-> NewTask]
    /\ scratch = InitScratch
    /\ stale = FALSE
    /\ \E options \in {"missing", "given"} :
          host = [kind |-> "worker", pc |-> "waiting", data |-> [options |-> options],
                  outbox |-> <<>>]

NextWorker ==
    \/ OnMessage
    \/ WorkerLoop
    \/ \E k \in {1} : TaskStep(k)

SpecWorker == InitWorker /\ [][NextWorker]_vars

ProgressMessage(m) == m.error = "null" /\ "result" \notin DOMAIN m
TerminalMessage(m) ==
    /\ m.progress = F1
    /\ \/ "result" \in DOMAIN m /\ m.error = "null"
       \/ "result" \notin DOMAIN m /\ m.error # "null"

\* the messages posted so far, in the order the claim C2 gives them
OutboxInOrder ==
    host.kind = "worker" =>
        LET n == Len(host.outbox)
        IN  IF host.pc = "finished"
            THEN /\ n >= 1
                 /\ TerminalMessage(host.outbox[n])
                 /\ \A m \in 1..(n - 1) :
                       ProgressMessage(host.outbox[m]) /\ ~TerminalMessage(host.outbox[m])
            ELSE \A m \in 1..n :
                     ProgressMessage(host.outbox[m]) /\ ~TerminalMessage(host.outbox[m])

\* C2: the messages posted for a request are progress messages with error
\* null, followed, once the handler has returned, by one terminal message
\* with progress 1; nothing is posted after it.
WorkerMessageOrder ==
    /\ []OutboxInOrder
    /\ [][(host.kind = "worker" /\ host.pc = "finished") => host'.outbox = host.outbox]_vars

\* the handler has returned after two progress messages and a terminal one
WorkerMessageOrderWitness ==
    /\ host.kind = "worker"
    /\ host.pc = "finished"
    /\ Len(host.outbox) = 3

\* C3: when generate has run to completion, the worker's terminal message
\* carries a result, error null and progress 1.
WorkerSuccessPostsResult ==
    (host.kind = "worker" /\ host.pc = "finished" /\ task[1].pc = "done") =>
        LET m == host.outbox[Len(host.outbox)]
        IN  "result" \in DOMAIN m /\ m.error = "null" /\ m.progress = F1

\* ------------------------------------------------------------------------
\* Two tasks on one thread, resumed in any order
\* (edgeProjection.js drives a task with the loop of lines 399-405; a second
\* one is started when the first is still suspended)
\* ------------------------------------------------------------------------
MaxTaskOccluders == 2

\* the floor and one of the last MaxTaskOccluders occluders
TaskMeshes ==
    {<<Floor, Occluders[n]>> :
        n \in {m \in 1..Len(Occluders) : m > Len(Occluders) - MaxTaskOccluders}}

TaskScenes ==
    [pv : ProjectionVectors, mesh : TaskMeshes, sortEdges : {TRUE},
     includeIntersectionEdges : {TRUE}, onProgress : {"none"}, bvh : {"ok"}]

InitTasks ==
    /\ scene \in [{1, 2} -> TaskScenes]
    /\ task = [k \in {1, 2} |-> NewTask]
    /\ scratch = InitScratch
    /\ stale = FALSE
    /\ host = [kind |-> "loop"]

NextTasks ==
    \/ LoopNext
    \/ \E k \in {1, 2} : TaskStep(k)

SpecTasks == InitTasks /\ [][NextTasks]_vars

\* The edge the detector pushes for the pair of triangles i, j of a mesh.
pushedFor(sc, i, j) ==
    IF boxIntersectsTriangle(Box(sc.mesh[j]), sc.mesh[i])
    THEN intersectionCallback([InitScratch EXCEPT !._tri = Cell(sc.mesh[i], 0)], 0,
                              sc.mesh[j], sc.pv).pushed
    ELSE NULL

\* The candidate edges of a task that runs alone, as a set.
candidatesAlone(sc) ==
    {generateEdges(sc.mesh)[n] : n \in 1..Len(generateEdges(sc.mesh))}
        \cup IF sc.includeIntersectionEdges
             THEN {pushedFor(sc, i, j) : i, j \in 1..Len(sc.mesh)} \ {NULL}
             ELSE {}

\* The visible segments of a task that runs alone, as a set.
edgeSetAlone(sc) ==
    UNION {LET segs == overlapsToLines(line,
                           hiddenAfterAll(sc, line, admitted(sc, InitScratch, 0, line), <<>>),
                           <<>>)
           IN  {segs[n] : n \in 1..Len(segs)} :
              line \in {l \in candidatesAlone(sc) : ~isProjectedLineDegenerate(l, sc.pv)}}

\* C5: with resumptions interleaved in any order, a finished task holds the
\* Edge Set it produces alone; the detector never reads a _tri another task
\* wrote; every scratch object a task has written is overwritten by it
\* before it reads it again, so none carries a value across a yield; and a
\* query starts with an empty hiddenOverlaps.
TasksAreIsolated ==
    /\ ~stale
    /\ \A k \in Tasks :
          LET t == task[k]
          IN  /\ t.pc = "done" =>
                    /\ {t.finalEdges[n] : n \in 1..Len(t.finalEdges)} = edgeSetAlone(scene[k])
                    /\ Len(t.finalEdges) = Cardinality(edgeSetAlone(scene[k]))
              /\ t.pc = "isect_visit" => scratch._tri.by = k
              /\ (t.pc = "hl_visit" /\ t.visited = {}) => t.hiddenOverlaps = <<>>

\* both tasks have finished, the second one resumed while the first stood
\* at a yield with scratch objects it had written
TasksAreIsolatedWitness ==
    /\ Tasks = {1, 2}
    /\ task[1].pc = "done"
    /\ task[2].pc = "done"
    /\ scene[1] # scene[2]
    /\ Len(task[1].results) >= 1
    /\ scratch._tri.by # scratch._ray.by

\* ------------------------------------------------------------------------
\* One task under each projection axis the application offers
\* (edgeProjection.js lines 366-380)
\* ------------------------------------------------------------------------
AxisVectors == {<<1, 0, 0>>, <<0, 1, 0>>, <<0, 0, 1>>}

MaxAxisOccluders == 1

AxisScenes ==
    [pv : AxisVectors, mesh : {m \in Meshes : Len(m) <= 1 + MaxAxisOccluders},
     sortEdges : {TRUE}, includeIntersectionEdges : {TRUE}, onProgress : {"none"},
     bvh : {"ok"}]

InitAxes ==
    /\ scene \in [{1} -> AxisScenes]
    /\ task = [k \in {1} |-> NewTask]
    /\ scratch = InitScratch
    /\ stale = FALSE
    /\ host = [kind |-> "loop"]

NextAxes ==
    \/ LoopNext
    \/ \E k \in {1} : TaskStep(k)

SpecAxes == InitAxes /\ [][NextAxes]_vars

\* The detector pushed line for a pair of triangles one of which is triangle j.
derivedFrom(sc, line, j) ==
    /\ sc.includeIntersectionEdges
    /\ \E i \in 1..Len(sc.mesh) : pushedFor(sc, i, j) = line \/ pushedFor(sc, j, i) = line

\* Triangle j of the mesh is one the candidate edge must not be hidden by.
ownTriangle(sc, line, j) ==
    isLineTriangleEdge(sc.mesh[j], line) \/ derivedFrom(sc, line, j)

\* C11: when the hidden-line query of a candidate edge visits a triangle the
\* edge is a boundary edge of, or one of the two triangles whose intersection
\* the edge is, the visit leaves the edge's hidden intervals as they were.
NoSelfOcclusion ==
    [][\A k \in Tasks :
          task[k].pc = "hl_visit" =>
              \A j \in task'[k].visited \ task[k].visited :
                  ownTriangle(scene[k], currentLine(task[k]), j) =>
                      task'[k].hiddenOverlaps = task[k].hiddenOverlaps]_vars

\* the query of an intersection edge is over, it has visited both triangles
\* the edge comes from, and nothing hides the edge
NoSelfOcclusionWitness ==
    \E k \in Tasks :
        LET t == task[k]
        IN  /\ t.pc = "hl_end"
            /\ Cardinality({j \in t.visited : derivedFrom(scene[k], currentLine(t), j)}) = 2
            /\ t.hiddenOverlaps = <<>>

\* The extent of a line and of a triangle along coordinate ax.
lowestAlong(line, ax) == Min2(line.start[ax], line.end[ax])
highestAlong(line, ax) == Max2(line.start[ax], line.end[ax])
lowestOfTriangle(tri, ax) == Min3(tri.a[ax], tri.b[ax], tri.c[ax])
highestOfTriangle(tri, ax) == Max3(tri.a[ax], tri.b[ax], tri.c[ax])

\* C12: in the query of a candidate edge, the edge's lowest and highest
\* extent, the test that skips a triangle lying entirely on the far side of
\* the edge, the test that takes the edge as entirely below the triangle, and
\* the side towards which a bounding box is extended are all taken along the
\* dominant axis of the projection vector.
ExtentsFollowProjectionAxis ==
    \A k \in Tasks :
        task[k].pc \in {"hl_visit", "hl_end"} =>
            LET line == currentLine(task[k])
                ax == DominantAxis(scene[k].pv)
            IN  /\ lowestLineY(line) = lowestAlong(line, ax)
                /\ highestLineY(line) = highestAlong(line, ax)
                /\ \A j \in 1..Len(scene[k].mesh) :
                      LET tri == scene[k].mesh[j]
                      IN  /\ (highestTriangleY(tri) <= lowestLineY(line))
                                <=> (highestOfTriangle(tri, ax) <= lowestAlong(line, ax))
                          /\ (highestLineY(line) < lowestTriangleY(tri))
                                <=> (highestAlong(line, ax) < lowestOfTriangle(tri, ax))
                          /\ expandedBox(Box(tri), line) =
                                [Box(tri) EXCEPT !.min[ax] =
                                    Min2(lowestAlong(line, ax) - BOUNDS_MARGIN, Box(tri).min[ax])]

\* ------------------------------------------------------------------------
\* Axis-aligned cubes, two triangles per face, one inside the other
\* ------------------------------------------------------------------------
\* The point whose coordinate ax is v and whose other two coordinates, in
\* the order of the axes, are u and w.
FacePoint(ax, v, u, w) ==
    IF ax = 1 THEN <<v, u, w>> ELSE IF ax = 2 THEN <<u, v, w>> ELSE <<u, w, v>>

Face(ax, v, lo, hi) ==
    <<Tri(FacePoint(ax, v, lo, lo), FacePoint(ax, v, hi, lo), FacePoint(ax, v, hi, hi)),
      Tri(FacePoint(ax, v, lo, lo), FacePoint(ax, v, hi, hi), FacePoint(ax, v, lo, hi))>>

Cube(lo, hi) ==
    Face(1, lo, lo, hi) \o Face(1, hi, lo, hi) \o Face(2, lo, lo, hi)
        \o Face(2, hi, lo, hi) \o Face(3, lo, lo, hi) \o Face(3, hi, lo, hi)

\* The inner cube spans 2 .. 2 + 2 * n for an n up to MaxInnerSize, the
\* outer cube leaves room of 2 around the largest inner cube.
MaxInnerSize == 2
OuterCube == Cube(0, 2 * MaxInnerSize + 4)
InnerCubes == {Cube(2, 2 + 2 * n) : n \in 1..MaxInnerSize}
CubeMeshes == {OuterCube} \cup {OuterCube \o inner : inner \in InnerCubes}

CubeScenes ==
    [pv : AxisVectors, mesh : CubeMeshes, sortEdges : BOOLEAN,
     includeIntersectionEdges : {FALSE}, onProgress : {"none"}, bvh : {"ok"}]

\* lines 443-535 for one candidate edge: the index reaches the leaves in
\* the order of js; a leaf whose box intersectsBounds rejects is passed
\* over, a callback that returns true ends the traversal.
RECURSIVE shapecast(_, _, _, _, _, _, _)
shapecast(sc, s, k, line, js, hiddenOverlaps, visited) ==
    IF js = <<>> THEN [s |-> s, hiddenOverlaps |-> hiddenOverlaps, visited |-> visited]
    ELSE LET j == Head(js)
             inTriangle(r) ==
                 IF r.ret
                 THEN [s |-> r.s, hiddenOverlaps |-> r.hiddenOverlaps,
                       visited |-> visited \cup {j}]
                 ELSE shapecast(sc, r.s, k, line, Tail(js), r.hiddenOverlaps,
                                visited \cup {j})
             inLeaf(b) ==
                 IF b.ret
                 THEN inTriangle(intersectsTriangle(b.s, k, line, sc.mesh[j],
                                                    hiddenOverlaps, sc.pv))
                 ELSE shapecast(sc, b.s, k, line, Tail(js), hiddenOverlaps, visited)
         IN  inLeaf(intersectsBounds(s, k, line, sc.mesh[j]))

\* The leaves in the order of the index buffer, or in the reverse order.
LeafOrders(n) == {[j \in 1..n |-> j], [j \in 1..n |-> n + 1 - j]}

\* The whole query of the current edge in one step
TrimQuery(k) ==
    /\ task[k].pc = "hl_visit"
    /\ \E js \in LeafOrders(Len(scene[k].mesh)) :
          LET becomes(r) ==
                  /\ task' = [task EXCEPT ![k].hiddenOverlaps = r.hiddenOverlaps,
                                          ![k].visited = r.visited,
                                          ![k].pc = "hl_end"]
                  /\ scratch' = r.s
          IN  becomes(shapecast(scene[k], scratch, k, currentLine(task[k]), js,
                                task[k].hiddenOverlaps, task[k].visited))
    /\ UNCHANGED <<scene, stale, host>>

InitCubes ==
    /\ scene \in [{1} -> CubeScenes]
    /\ task = [k \in {1} |-> NewTask]
    /\ scratch = InitScratch
    /\ stale = FALSE
    /\ host = [kind |-> "loop"]

NextCubes ==
    \/ LoopNext
    \/ Start(1)
    \/ Sort(1)
    \/ TrimInit(1)
    \/ TrimHead(1)
    \/ TrimQuery(1)
    \/ TrimEnd(1)

SpecCubes == InitCubes /\ [][NextCubes]_vars

\* line is an edge of a triangle of the inner cube
isInnerEdge(sc, line) ==
    \E j \in (Len(OuterCube) + 1)..Len(sc.mesh) : isLineTriangleEdge(sc.mesh[j], line)

\* C13: with a cube inside the outer cube, under each of the three primary
\* projection vectors, the query of an edge of the inner cube ends with the
\* hidden intervals [0, 1], no visible segment of the finished run lies on an
\* edge of the inner cube, and the visible segments are those of the outer
\* cube alone.
NestedCubeHidden ==
    \A k \in Tasks :
        LET t == task[k]
            sc == scene[k]
        IN  Len(sc.mesh) > Len(OuterCube) =>
               /\ (t.pc = "hl_end" /\ isInnerEdge(sc, currentLine(t)))
                     => t.hiddenOverlaps = <<<<F0, F1>>>>
               /\ t.pc = "done" =>
                     /\ \A n \in 1..Len(t.finalEdges) : ~isInnerEdge(sc, t.finalEdges[n])
                     /\ {t.finalEdges[n] : n \in 1..Len(t.finalEdges)}
                            = edgeSetAlone([sc EXCEPT !.mesh = OuterCube])

\* The candidate edges the detector has pushed so far for triangles i and j,
\* in either role.
pushedForPair(sc, t, i, j) ==
    {n \in 1..Len(t.results) : t.results[n] \in {pushedFor(sc, i, j), pushedFor(sc, j, i)}}

\* C14: the detector's result holds at most one candidate edge for each
\* unordered pair of triangles.
PairsCountedOnce ==
    \A k \in Tasks :
        \A i, j \in 1..Len(scene[k].mesh) :
            i < j => Cardinality(pushedForPair(scene[k], task[k], i, j)) <= 1

\* ------------------------------------------------------------------------
\* generate called with a projection vector of length zero
\* (generator.projectionVector = new Vector3( 0, 0, 0 ))
\* ------------------------------------------------------------------------
ZeroVector == <<0, 0, 0>>

InputScenes ==
    [pv : {ZeroVector} \cup ProjectionVectors,
     mesh : {m \in Meshes : Len(m) <= 1 + MaxAxisOccluders},
     sortEdges : {TRUE}, includeIntersectionEdges : BOOLEAN, onProgress : {"none"},
     bvh : {"ok"}]

InitInputs ==
    /\ scene \in [{1} -> InputScenes]
    /\ task = [k \in {1} |-> NewTask]
    /\ scratch = InitScratch
    /\ stale = FALSE
    /\ host = [kind |-> "loop"]

NextInputs ==
    \/ LoopNext
    \/ \E k \in {1} : TaskStep(k)

SpecInputs == InitInputs /\ [][NextInputs]_vars

\* C15: a task started with a projection vector of length zero ends with an
\* error before it has extracted a candidate edge; it neither yields nor
\* returns an Edge Set.
MalformedInputFailsFast ==
    \A k \in Tasks :
        scene[k].pv = ZeroVector =>
            /\ task[k].pc \in {"new", "start", "threw"}
            /\ task[k].edges = <<>>

\* C16: a candidate edge that isProjectedLineDegenerate reports is passed
\* over at the head of the loop: the step only advances the index and
\* writes no scratch object, so no query is run and no hidden interval list
\* is built for it; no query ever works on such an edge and the output
\* holds no segment of one.
DegenerateEdgesDiscarded ==
    /\ [](\A k \in Tasks :
             /\ task[k].pc \in {"hl_visit", "hl_end"} =>
                    ~isProjectedLineDegenerate(currentLine(task[k]), scene[k].pv)
             /\ \A n \in 1..Len(task[k].finalEdges) :
                    ~isProjectedLineDegenerate(task[k].finalEdges[n], scene[k].pv))
    /\ [][\A k \in Tasks :
             (/\ task[k].pc = "hl_head"
              /\ task[k].i < Len(task[k].edges)
              /\ isProjectedLineDegenerate(currentLine(task[k]), scene[k].pv))
                 => /\ task'[k] = [task[k] EXCEPT !.i = task[k].i + 1]
                    /\ scratch' = scratch]_vars

\* the loop has just passed over a degenerate edge, after it converted
\* another edge
DegenerateEdgesDiscardedWitness ==
    \E k \in Tasks :
        LET t == task[k]
        IN  /\ t.pc = "hl_head"
            /\ t.i >= 2
            /\ isProjectedLineDegenerate(t.edges[t.i], scene[k].pv)
            /\ Len(t.finalEdges) >= 1

\* ------------------------------------------------------------------------
\* The predicates of triangleLineUtils.js called on their own
\*
\* host.fn is the function called, host.tri, host.line and host.pv its
\* arguments, host.calls the number of calls made, host.result what it
\* returned and host.swapped what it returned for the line with start and
\* end exchanged.
\* ------------------------------------------------------------------------
\* Coordinates of the end points run over 0 .. MaxCoord, the components of
\* the projection vector over -MaxComponent .. MaxComponent.
MaxCoord == 1
MaxComponent == 2

GridPoints == (0..MaxCoord) \X (0..MaxCoord) \X (0..MaxCoord)
GridLines == {Line3(p, q) : p, q \in GridPoints}
GridTriangles == {Tri(<<0, 0, 0>>, <<1, 0, 0>>, <<0, 1, 0>>),
                  Tri(<<0, 0, 0>>, <<0, 1, 1>>, <<1, 0, 1>>)}
GridVectors ==
    ((-MaxComponent..MaxComponent) \X (-MaxComponent..MaxComponent)
        \X (-MaxComponent..MaxComponent)) \ {<<0, 0, 0>>}

swap(line) == Line3(line.end, line.start)

InitPredicates ==
    /\ scene = <<>>
    /\ task = <<>>
    /\ scratch = InitScratch
    /\ stale = FALSE
    /\ \/ \E tri \in GridTriangles, line \in GridLines :
             host = [kind |-> "predicate", fn |-> "isLineTriangleEdge", tri |-> tri,
                     line |-> line, pv |-> <<0, 1, 0>>, calls |-> 0, result |-> FALSE, swapped |-> FALSE]
       \/ \E line \in GridLines, pv \in GridVectors :
             host = [kind |-> "predicate", fn |-> "isProjectedLineDegenerate",
                     tri |-> Tri(<<0, 0, 0>>, <<1, 0, 0>>, <<0, 1, 0>>),
                     line |-> line, pv |-> pv, calls |-> 0, result |-> FALSE, swapped |-> FALSE]

CallIsLineTriangleEdge ==
    /\ host.kind = "predicate"
    /\ host.fn = "isLineTriangleEdge"
    /\ host.calls = 0
    /\ host' = [host EXCEPT !.calls = 1,
                            !.result = isLineTriangleEdge(host.tri, host.line),
                            !.swapped = isLineTriangleEdge(host.tri, swap(host.line))]
    /\ UNCHANGED <<scene, task, scratch, stale>>

CallIsProjectedLineDegenerate ==
    /\ host.kind = "predicate"
    /\ host.fn = "isProjectedLineDegenerate"
    /\ host.calls = 0
    /\ host' = [host EXCEPT !.calls = 1,
                            !.result = isProjectedLineDegenerate(host.line, host.pv),
                            !.swapped = isProjectedLineDegenerate(swap(host.line), host.pv)]
    /\ UNCHANGED <<scene, task, scratch, stale>>

NextPredicates ==
    \/ CallIsLineTriangleEdge
    \/ CallIsProjectedLineDegenerate

SpecPredicates == InitPredicates /\ [][NextPredicates]_vars

\* start and end of the line lie on two different vertices of the triangle
onTwoVertices(tri, line) ==
    \E m, n \in 1..3 :
        m # n /\ line.start = points(tri)[m] /\ line.end = points(tri)[n]

\* C17: isLineTriangleEdge returns true exactly when the line's start and
\* end lie on two different vertices of the triangle, and returns the same
\* for the line with start and end exchanged.
BoundaryEdgeIffTwoVertices ==
    (host.kind = "predicate" /\ host.fn = "isLineTriangleEdge" /\ host.calls = 1) =>
        /\ host.result = onTwoVertices(host.tri, host.line)
        /\ host.swapped = host.result

\* C18: for a projection vector other than zero and an edge of a length
\* other than zero, isProjectedLineDegenerate returns true exactly when the
\* direction of the edge is parallel or anti-parallel to the vector.
DegenerateIffParallel ==
    (/\ host.kind = "predicate"
     /\ host.fn = "isProjectedLineDegenerate"
     /\ host.calls = 1
     /\ delta(host.line) # <<0, 0, 0>>) =>
        host.result = (VCross(delta(host.line), host.pv) = <<0, 0, 0>>)

\* ------------------------------------------------------------------------
\* Two runs of generate on one mesh and projection vector, one after the
\* other: the second starts when the first has returned, with the scratch
\* objects as the first left them.  The runs may differ in sortEdges and in
\* where their yields fall.
\* ------------------------------------------------------------------------
RunScenes ==
    {sc \in [{1, 2} -> [pv : ProjectionVectors, mesh : TaskMeshes, sortEdges : BOOLEAN,
                        includeIntersectionEdges : {TRUE}, onProgress : {"none"},
                        bvh : {"ok"}]] :
        sc[1].mesh = sc[2].mesh /\ sc[1].pv = sc[2].pv}

InitRuns ==
    /\ scene \in RunScenes
    /\ task = [k \in {1, 2} |-> NewTask]
    /\ scratch = InitScratch
    /\ stale = FALSE
    /\ host = [kind |-> "loop"]

\* task.next() of the first run until it is done, then of the second
RunsNext ==
    /\ AtRest
    /\ \E k \in DOMAIN task :
          /\ task[k].pc \in {"new", "suspended"}
          /\ \A m \in DOMAIN task : m < k => task[m].pc = "done"
          /\ task' = [task EXCEPT ![k] = next(task[k])]
    /\ UNCHANGED <<scene, scratch, stale, host>>

NextRuns ==
    \/ RunsNext
    \/ \E k \in {1, 2} : TaskStep(k)

SpecRuns == InitRuns /\ [][NextRuns]_vars

\* The number of times x occurs in a sequence, and two sequences holding
\* the same elements the same number of times.
occurrences(seq, x) == Cardinality({n \in 1..Len(seq) : seq[n] = x})

sameMultiset(a, b) ==
    /\ Len(a) = Len(b)
    /\ \A n \in 1..Len(a) : occurrences(a, a[n]) = occurrences(b, a[n])

\* C19: two finished runs on the same mesh and projection vector hold the
\* same visible segments, each the same number of times, whatever their
\* sortEdges settings were, wherever they yielded, and whatever the first run
\* left in the scratch objects.
RunsAgree ==
    (Tasks = {1, 2} /\ task[1].pc = "done" /\ task[2].pc = "done") =>
        sameMultiset(task[1].finalEdges, task[2].finalEdges)

\* both runs are done, one sorted its candidate edges and the other did
\* not, and their outputs list the segments in different orders
RunsAgreeWitness ==
    /\ Tasks = {1, 2}
    /\ task[1].pc = "done"
    /\ task[2].pc = "done"
    /\ scene[1].sortEdges # scene[2].sortEdges
    /\ Len(task[1].finalEdges) >= 3
    /\ task[1].finalEdges # task[2].finalEdges

\* C20: a task that was given onProgress calls it when, and only when, it
\* goes from the end of an edge's iteration to the yield of the hidden-line
\* loop; the fraction it passes is i / edges.length for the index i of the
\* edge just handled, lies in [0, 1), and is larger than the fraction of the
\* call before; the Edge Set it passes holds the segments of the edges
\* handled so far.
ProgressCadence ==
    [][\A k \in Tasks :
          scene[k].onProgress = "ok" =>
              LET t == task[k]
                  after == task'[k]
              IN  IF t.pc = "hl_end" /\ after.pc = "suspended"
                  THEN /\ after.yieldAt = "edge"
                       /\ after.progress = Frac(t.i, Len(t.edges))
                       /\ FLe(F0, after.progress) /\ FLt(after.progress, F1)
                       /\ t.progress # NOHIT => FLt(t.progress, after.progress)
                       /\ after.finalEdges = convertedUpTo(scene[k], t.edges, t.i + 1)
                  ELSE after.progress = t.progress]_vars

\* a task stands at the yield of the hidden-line loop after its third
\* edge or a later one, having reported a fraction above 0
ProgressCadenceWitness ==
    \E k \in Tasks :
        LET t == task[k]
        IN  /\ scene[k].onProgress = "ok"
            /\ t.pc = "suspended"
            /\ t.yieldAt = "edge"
            /\ t.i >= 3
            /\ t.progress = Frac(t.i - 1, Len(t.edges))
            /\ Len(t.finalEdges) >= 1

\* ---------------------------------------------------------------------
\* EdgeSet.getLineGeometry: the flat coordinate buffer of an Edge Set.
\* Numbers are integers here. An edge of the set is the array of six numbers
\* line[0..5] (start x, y, z, end x, y, z) the accessor reads.

\* new Float32Array( n ), element store: the value is kept in single precision
\* (24 bits of mantissa, round to nearest, ties to even).
RECURSIVE ulp(_, _)
ulp(a, u) == IF a < 16777216 * u THEN u ELSE ulp(a, 2 * u)

Float32ArrayStore(x) ==
    LET a == Abs(x)
        u == ulp(a, 1)
        q == a \div u
        r == a % u
        m == IF 2 * r < u \/ (2 * r = u /\ q % 2 = 0) THEN q * u ELSE (q + 1) * u
    IN IF x < 0 THEN 0 - m ELSE m

\* (mutant) the accessor of the upstream library, which always collapses Y
getLineGeometryAlongY(edges, projectionValue, projectionAxis) ==
    LET RECURSIVE fill(_)
        fill(i) ==
            IF i > Len(edges) THEN <<>>
            ELSE LET line == edges[i]
                     v == Float32ArrayStore(projectionValue)
                     c(j) == Float32ArrayStore(line[j + 1])
                 IN <<c(0), v, c(2), c(3), v, c(5)>> \o fill(i + 1)
    IN fill(1)

\* getLineGeometry( projectionValue = 0, projectionAxis = 'Y' ): the array of
\* the position attribute of the geometry it returns.
getLineGeometry(edges, projectionValue, projectionAxis) ==
    LET RECURSIVE fill(_)
        fill(i) ==
            IF i > Len(edges) THEN <<>>
            ELSE LET line == edges[i]
                     v == Float32ArrayStore(projectionValue)
                     c(j) == Float32ArrayStore(line[j + 1])
                 IN (CASE projectionAxis = "X" -> <<v, c(1), c(2), v, c(4), c(5)>>
                       [] projectionAxis = "Z" -> <<c(0), c(1), v, c(3), c(4), v>>
                       [] OTHER -> <<c(0), v, c(2), c(3), v, c(5)>>) \o fill(i + 1)
    IN fill(1)

MaxSegments == 2

\* 16777217 = 2^24 + 1 is the first integer single precision cannot hold
SegmentPoints == {<<0, 1, -3>>, <<2, 16777217, 5>>, <<-7, 4, 16777219>>}
SegmentPool == {p \o q : p, q \in SegmentPoints}
EdgeSets == UNION {[1..n -> SegmentPool] : n \in 0..MaxSegments}
ProjectionValues == {0, -6, 16777217}
AxisLabels == {"X", "Y", "Z", "y"}

InitGeometry ==
    /\ scene = <<>>
    /\ task = <<>>
    /\ scratch = InitScratch
    /\ stale = FALSE
    /\ \E edges \in EdgeSets, pv \in ProjectionValues, axis \in AxisLabels :
          host = [kind |-> "accessor", edges |-> edges, projectionValue |-> pv,
                  projectionAxis |-> axis, calls |-> 0, position |-> <<>>]

CallGetLineGeometry ==
    /\ host.kind = "accessor"
    /\ host.calls = 0
    /\ host' = [host EXCEPT !.calls = 1,
                            !.position = getLineGeometry(host.edges, host.projectionValue,
                                                         host.projectionAxis)]
    /\ UNCHANGED <<scene, task, scratch, stale>>

NextGeometry == CallGetLineGeometry

SpecGeometry == InitGeometry /\ [][NextGeometry]_vars

\* the index (0, 1, 2) of the coordinate a label collapses
collapsed(projectionAxis) ==
    CASE projectionAxis = "X" -> 0 [] projectionAxis = "Z" -> 2 [] OTHER -> 1

\* the buffer has six numbers per segment, in Edge Set order; number j of
\* segment n is exact(projectionValue) on the collapsed axis and
\* exact(the segment's number j) elsewhere
bufferIs(exact(_)) ==
    /\ Len(host.position) = 6 * Len(host.edges)
    /\ \A n \in 1..Len(host.edges) : \A j \in 0..5 :
          host.position[6 * (n - 1) + j + 1] =
              IF j % 3 = collapsed(host.projectionAxis)
              THEN exact(host.projectionValue)
              ELSE exact(host.edges[n][j + 1])

asGiven(x) == x

\* C21 (as stated): after getLineGeometry(projectionValue, axis) the buffer has
\* exactly 6 numbers per segment, in Edge Set order; the coordinate of the
\* chosen axis equals projectionValue for both end points and the other two
\* coordinates of each end point are the segment's own, unchanged.
GeometryCopiesExactly ==
    (host.kind = "accessor" /\ host.calls = 1) => bufferIs(asGiven)

\* C21 (amended): the same, with every number of the buffer in single
\* precision: the chosen axis holds projectionValue rounded to single
\* precision, the other coordinates hold the segment's numbers rounded to
\* single precision; and the call leaves the Edge Set as it was.
GeometryInSinglePrecision ==
    /\ []((host.kind = "accessor" /\ host.calls = 1) => bufferIs(Float32ArrayStore))
    /\ [][host.kind = "accessor" => host'.edges = host.edges]_vars

GeometryInSinglePrecisionWitness ==
    /\ host.kind = "accessor"
    /\ host.calls = 1
    /\ Len(host.edges) = MaxSegments
    /\ host.projectionAxis = "Z"
    /\ host.projectionValue = 16777217
    /\ host.position[3] = 16777216
    /\ host.edges[1] # host.edges[2]

\* ---------------------------------------------------------------------
\* The cube alone under the projection vector (0, 1, 0).  The cube of the
\* model spans 0..CubeSide on every axis, two triangles per face.
CubeSide == 2 * MaxInnerSize + 4

isVertical(line) == line.start[1] = line.end[1] /\ line.start[3] = line.end[3]
onTopFace(line) == line.start[2] = CubeSide /\ line.end[2] = CubeSide
onBottomFace(line) == line.start[2] = 0 /\ line.end[2] = 0

\* C22: for the cube of 12 triangles under (0,1,0), of its 12 candidate edges
\* the 4 vertical ones are discarded as degenerate (no query runs for them),
\* the query of each of the 4 top edges ends with no hidden interval and the
\* edge is emitted whole, the query of each of the 4 bottom edges ends with
\* the hidden intervals [0, 1] and nothing is emitted for it: the finished
\* run holds exactly the 4 top edges, each once and whole.
CubeAlongY ==
    \A k \in Tasks :
        LET t == task[k]
            sc == scene[k]
            count(S(_)) == Cardinality({m \in 1..Len(t.edges) : S(t.edges[m])})
        IN  (sc.pv = <<0, 1, 0>> /\ sc.mesh = OuterCube) =>
               /\ t.pc \in {"hl_head", "hl_visit", "hl_end", "done"} =>
                     /\ Len(t.edges) = 12
                     /\ count(isVertical) = 4
                     /\ count(onTopFace) = 4
                     /\ count(onBottomFace) = 4
               /\ t.pc \in {"hl_visit", "hl_end"} =>
                     /\ ~isVertical(currentLine(t))
                     /\ isProjectedLineDegenerate(currentLine(t), sc.pv) = FALSE
               /\ (t.pc = "hl_end" /\ onTopFace(currentLine(t))) => t.hiddenOverlaps = <<>>
               /\ (t.pc = "hl_end" /\ onBottomFace(currentLine(t)))
                     => t.hiddenOverlaps = <<<<F0, F1>>>>
               /\ t.pc = "done" =>
                     /\ Len(t.finalEdges) = 4
                     /\ {t.finalEdges[n] : n \in 1..Len(t.finalEdges)}
                           = {WholeLine(t.edges[m]) :
                                 m \in {m \in 1..Len(t.edges) : onTopFace(t.edges[m])}}

CubeAlongYWitness ==
    /\ scene[1].pv = <<0, 1, 0>>
    /\ scene[1].mesh = OuterCube
    /\ task[1].pc = "done"
    /\ Len(task[1].finalEdges) = 4
    /\ task[1].visited # {}

\* ---------------------------------------------------------------------
\* The topology filter (postProcessing.js).  Lengths are in units of 0.01
\* here; lengths and cosines are compared by their squares.

\* 0.0001
POINT_TOLERANCE == Frac(1, 100)
\* 0.03
MIN_LINE_LENGTH == 3
\* 0.01
MAX_PARALLEL_DISTANCE == 1
MIN_CONNECTED_LINES == 2
MIN_COMPONENT_SIZE == 3
MAX_DENSITY_THRESHOLD == 12
\* 0.05
DENSITY_CELL_SIZE == 5

\* new LineSegment(start, end), with the length squared
LineSegment(start, end) ==
    [start |-> start, end |-> end, lengthSq |-> distanceToSquared(start, end),
     connections |-> {}, componentId |-> -1, hasC1Continuity |-> FALSE]

\* getDistanceTo(point), squared: the distance of point from the segment
getDistanceTo(line, point) ==
    LET v == VSub(line.end, line.start)
        w == VSub(point, line.start)
        c1 == VDot(w, v)
        c2 == VDot(v, v)
    IN  IF c1 <= 0 THEN FInt(distanceToSquared(point, line.start))
        ELSE IF c2 <= c1 THEN FInt(distanceToSquared(point, line.end))
        ELSE Frac(VDot(w, w) * c2 - c1 * c1, c2)

\* isAxisAligned(): a component of the unit direction exceeds 1 - 0.1
isAxisAligned(line) ==
    LET d == VSub(line.end, line.start)
    IN  \E a \in 1..3 : 100 * d[a] * d[a] > 81 * line.lengthSq

\* hasC1ContinuityWith(other): |thisDir . otherDir| > 1 - 0.15; reversing
\* otherDir (lines 60-63) does not change the absolute value
hasC1ContinuityWith(line, other) ==
    LET a == VSub(line.end, line.start)
        b == VSub(other.end, other.start)
    IN  400 * VDot(a, b) * VDot(a, b) > 289 * line.lengthSq * other.lengthSq

\* SpatialGrid.getGridKey(point), cellSize = MAX_PARALLEL_DISTANCE * 2
getGridKey(point) ==
    [a \in 1..3 |-> point[a] \div (MAX_PARALLEL_DISTANCE * 2)]

\* SpatialGrid.getNearbyLines(point) after every line was added: the lines
\* with an end point in the cell of point or in one of the 26 cells around it
getNearbyLines(lines, point) ==
    {j \in 1..Len(lines) :
        \E p \in {lines[j].start, lines[j].end} :
            \A a \in 1..3 : Abs(getGridKey(p)[a] - getGridKey(point)[a]) <= 1}

\* lines 171-180: the test that connects line and nearby
withinTolerance(line, nearby) ==
    LET lt(d) == FLt(d, FMul(POINT_TOLERANCE, POINT_TOLERANCE))
        startDist == FMin(getDistanceTo(line, nearby.start), getDistanceTo(line, nearby.end))
        endDist == FMin(getDistanceTo(nearby, line.start), getDistanceTo(nearby, line.end))
    IN  lt(startDist) \/ lt(endDist)

\* buildTopology(positions): the line objects in the order of the buffer.
\* For each line the loop of lines 164-191 visits the lines near its two end
\* points and connects both ways; a line ends with the union of what it
\* found and of the lines that found it.
buildTopology(positions) ==
    LET n == Len(positions) \div 6
        at(i, k) == positions[6 * (i - 1) + k]
        lines == [i \in 1..n |-> LineSegment(<<at(i, 1), at(i, 2), at(i, 3)>>,
                                             <<at(i, 4), at(i, 5), at(i, 6)>>)]
        found(i) == {j \in (getNearbyLines(lines, lines[i].start)
                              \cup getNearbyLines(lines, lines[i].end)) \ {i} :
                        withinTolerance(lines[i], lines[j])}
        connections(i) == found(i) \cup {j \in 1..n : i \in found(j)}
    IN  [i \in 1..n |->
            [lines[i] EXCEPT !.connections = connections(i),
                             !.hasC1Continuity =
                                 \E j \in connections(i) :
                                     hasC1ContinuityWith(lines[i], lines[j])
                                        \/ hasC1ContinuityWith(lines[j], lines[i])]]

\* dfs(line) of findConnectedComponents for the component number cur: the
\* componentId of every line object after the call
RECURSIVE dfs(_, _, _, _)
dfs(lines, ids, i, cur) ==
    IF ids[i] # -1 THEN ids
    ELSE LET RECURSIVE each(_, _)
             each(state, todo) ==
                 IF todo = {} THEN state
                 ELSE LET c == CHOOSE x \in todo : \A y \in todo : x <= y
                      IN  each(IF state[c] = -1 THEN dfs(lines, state, c, cur) ELSE state,
                               todo \ {c})
         IN  each([ids EXCEPT ![i] = cur], lines[i].connections)

\* findConnectedComponents(lines) for the list of indices given: the
\* componentId of every line object (the components are the classes of it)
RECURSIVE findConnectedComponents(_, _, _, _)
findConnectedComponents(lines, list, ids, currentComponent) ==
    IF list = <<>> THEN ids
    ELSE IF ids[Head(list)] = -1
         THEN findConnectedComponents(lines, Tail(list),
                                      dfs(lines, ids, Head(list), currentComponent),
                                      currentComponent + 1)
         ELSE findConnectedComponents(lines, Tail(list), ids, currentComponent)

\* (mutant) the first pass as "long enough or well connected"
firstPassEitherOr(line) ==
    IF isAxisAligned(line) THEN 4 * line.lengthSq >= MIN_LINE_LENGTH * MIN_LINE_LENGTH
    ELSE \/ line.lengthSq >= MIN_LINE_LENGTH * MIN_LINE_LENGTH
         \/ Cardinality(line.connections) >= MIN_CONNECTED_LINES
         \/ line.hasC1Continuity

\* the predicate of the first pass (lines 198-212)
firstPass(line) ==
    IF isAxisAligned(line) THEN 4 * line.lengthSq >= MIN_LINE_LENGTH * MIN_LINE_LENGTH
    ELSE LET hasGoodConnections == Cardinality(line.connections) >= MIN_CONNECTED_LINES
             isLongEnough == line.lengthSq >= MIN_LINE_LENGTH * MIN_LINE_LENGTH
         IN  (isLongEnough /\ hasGoodConnections) \/ line.hasC1Continuity

\* validComponents (lines 216-230), from the componentId of the line objects
validComponents(lines) ==
    {id \in {lines[i].componentId : i \in 1..Len(lines)} \ {-1} :
        LET componentLines == {i \in 1..Len(lines) : lines[i].componentId = id}
        IN  \/ Cardinality(componentLines) >= MIN_COMPONENT_SIZE
            \/ \E i \in componentLines : lines[i].hasC1Continuity
            \/ \E i \in componentLines : isAxisAligned(lines[i])}

\* the key of the density map for a line (lines 237-238): the cell of twice
\* the midpoint in cells of twice the size
densityKey(line) ==
    [a \in 1..3 |-> (line.start[a] + line.end[a]) \div (2 * DENSITY_CELL_SIZE)]

\* the predicate of the third pass (lines 242-256) for the lines of list
thirdPass(lines, list, i) ==
    LET density == Cardinality({n \in 1..Len(list) :
                                   densityKey(lines[list[n]]) = densityKey(lines[i])})
    IN  \/ isAxisAligned(lines[i])
        \/ lines[i].hasC1Continuity
        \/ density < MAX_DENSITY_THRESHOLD
        \/ lines[i].lengthSq > 4 * MIN_LINE_LENGTH * MIN_LINE_LENGTH

\* (mutant) the output with the end point of a line before its start point
RECURSIVE newPositionsEndFirst(_, _)
newPositionsEndFirst(lines, list) ==
    IF list = <<>> THEN <<>>
    ELSE LET line == lines[Head(list)]
         IN  <<Float32ArrayStore(line.end[1]), Float32ArrayStore(line.end[2]),
               Float32ArrayStore(line.end[3]), Float32ArrayStore(line.start[1]),
               Float32ArrayStore(line.start[2]), Float32ArrayStore(line.start[3])>>
                \o newPositionsEndFirst(lines, Tail(list))

\* new Float32Array(newPositions) of lines 263-271
RECURSIVE newPositions(_, _)
newPositions(lines, list) ==
    IF list = <<>> THEN <<>>
    ELSE LET line == lines[Head(list)]
         IN  <<Float32ArrayStore(line.start[1]), Float32ArrayStore(line.start[2]),
               Float32ArrayStore(line.start[3]), Float32ArrayStore(line.end[1]),
               Float32ArrayStore(line.end[2]), Float32ArrayStore(line.end[3])>>
                \o newPositions(lines, Tail(list))

\* getFilteringStats(originalPositions, filteredPositions); the percentage
\* is a text derived from the counts and is left out
getFilteringStats(originalPositions, filteredPositions) ==
    LET originalLineCount == Len(originalPositions) \div 6
        filteredLineCount == Len(filteredPositions) \div 6
    IN  [originalLineCount |-> originalLineCount,
         filteredLineCount |-> filteredLineCount,
         removedLineCount |-> originalLineCount - filteredLineCount]

MaxLines == 3

\* the segments the buffers are made of, z = 0: a triangle of slanted sides
\* T1 T2 T3; X and Y, short and slanted, at the two ends of T1; C, which
\* continues T1; H along x with N standing on its middle; h, short, along x
FilterSegments ==
    {<<0, 0, 0, 6, 3, 0>>, <<6, 3, 0, 3, -3, 0>>, <<3, -3, 0, 0, 0, 0>>,
     <<0, 0, 0, -1, 2, 0>>, <<6, 3, 0, 5, 5, 0>>, <<6, 3, 0, 12, 6, 0>>,
     <<0, 0, 0, 4, 0, 0>>, <<2, 0, 0, 2, 3, 0>>, <<6, 3, 0, 7, 3, 0>>}

RECURSIVE flat(_)
flat(segments) == IF segments = <<>> THEN <<>> ELSE Head(segments) \o flat(Tail(segments))

InitFilter ==
    /\ scene = <<>>
    /\ task = <<>>
    /\ scratch = InitScratch
    /\ stale = FALSE
    /\ \E n \in 0..MaxLines : \E segments \in [1..n -> FilterSegments] :
          host = [kind |-> "filter", pc |-> "buildTopology", positions |-> flat(segments),
                  lines |-> <<>>, kept |-> <<>>, filteredPositions |-> <<>>,
                  stats |-> getFilteringStats(<<>>, <<>>)]

\* postProcessProjection, line 260
BuildTopology ==
    /\ host.kind = "filter"
    /\ host.pc = "buildTopology"
    /\ host' = [host EXCEPT !.pc = "first", !.lines = buildTopology(host.positions)]
    /\ UNCHANGED <<scene, task, scratch, stale>>

\* filterLines, lines 198-212.  kept holds the value of the variable lines
\* (as indices of line objects) after each pass.
FirstPass ==
    /\ host.kind = "filter"
    /\ host.pc = "first"
    /\ host' = [host EXCEPT
          !.pc = "second",
          !.kept = <<SelectSeq([i \in 1..Len(host.lines) |-> i],
                               LAMBDA i : firstPass(host.lines[i]))>>]
    /\ UNCHANGED <<scene, task, scratch, stale>>

\* filterLines, lines 214-232
SecondPass ==
    /\ host.kind = "filter"
    /\ host.pc = "second"
    /\ LET ids == findConnectedComponents(host.lines, host.kept[1],
                                          [i \in 1..Len(host.lines) |-> -1], 0)
           labelled == [i \in 1..Len(host.lines) |->
                           [host.lines[i] EXCEPT !.componentId = ids[i]]]
       IN  host' = [host EXCEPT
              !.pc = "third",
              !.lines = labelled,
              !.kept = Append(@, SelectSeq(host.kept[1],
                         LAMBDA i : labelled[i].componentId \in validComponents(labelled)))]
    /\ UNCHANGED <<scene, task, scratch, stale>>

\* filterLines, lines 234-256
ThirdPass ==
    /\ host.kind = "filter"
    /\ host.pc = "third"
    /\ host' = [host EXCEPT
          !.pc = "output",
          !.kept = Append(@, SelectSeq(host.kept[2],
                                       LAMBDA i : thirdPass(host.lines, host.kept[2], i)))]
    /\ UNCHANGED <<scene, task, scratch, stale>>

\* postProcessProjection, lines 263-271
ReturnPositions ==
    /\ host.kind = "filter"
    /\ host.pc = "output"
    /\ host' = [host EXCEPT !.pc = "returned",
                            !.filteredPositions = newPositions(host.lines, host.kept[3])]
    /\ UNCHANGED <<scene, task, scratch, stale>>

\* getFilteringStats( originalPositions, filteredPositions ) of the host
GetFilteringStats ==
    /\ host.kind = "filter"
    /\ host.pc = "returned"
    /\ host' = [host EXCEPT !.pc = "stats",
                            !.stats = getFilteringStats(host.positions, host.filteredPositions)]
    /\ UNCHANGED <<scene, task, scratch, stale>>

NextFilter ==
    \/ BuildTopology
    \/ FirstPass
    \/ SecondPass
    \/ ThirdPass
    \/ ReturnPositions
    \/ GetFilteringStats

SpecFilter == InitFilter /\ [][NextFilter]_vars

\* Vocabulary of the filter claims
Removed(n) == {i \in 1..Len(host.lines) : \A m \in 1..Len(host.kept[n]) : host.kept[n][m] # i}
Kept(n) == {host.kept[n][m] : m \in 1..Len(host.kept[n])}
isShort(line) == line.lengthSq < MIN_LINE_LENGTH * MIN_LINE_LENGTH
isLoose(line) == Cardinality(line.connections) < MIN_CONNECTED_LINES

RECURSIVE chained(_, _, _)
chained(S, seen, frontier) ==
    IF frontier = {} THEN seen
    ELSE LET more == (UNION {host.lines[i].connections : i \in frontier} \cap S) \ seen
         IN  chained(S, seen \cup more, more)

survivingComponent(i) == chained(Kept(1), {i}, {i})

exempt(component) ==
    \/ Cardinality(component) >= MIN_COMPONENT_SIZE
    \/ \E i \in component : host.lines[i].hasC1Continuity
    \/ \E i \in component : isAxisAligned(host.lines[i])

\* C24: after the second pass every surviving segment belongs to a connected
\* component (of the segments the second pass was given) that has at least
\* MIN_COMPONENT_SIZE segments or contains a tangent-continuous or an
\* axis-aligned segment, and every segment of any other component is removed.
SmallComponentsDropped ==
    (host.kind = "filter" /\ Len(host.kept) >= 2) =>
        \A i \in Kept(1) : i \in Kept(2) <=> exempt(survivingComponent(i))

\* C25: the labelling of the second pass runs over the segments that survived
\* the first pass only: two surviving segments have the same componentId
\* exactly if a chain of connections through surviving segments joins them,
\* and no segment removed by the first pass is given a componentId, so that
\* no removed segment counts for the size or the exemptions of a component.
ComponentsOfSurvivors ==
    (host.kind = "filter" /\ Len(host.kept) >= 2) =>
        /\ \A i, j \in Kept(1) :
              host.lines[i].componentId = host.lines[j].componentId
                  <=> j \in survivingComponent(i)
        /\ \A i \in Removed(1) : host.lines[i].componentId = -1

endPoints(line) == {line.start, line.end}

\* C26: buildTopology connects two distinct segments exactly if an end point
\* of one lies within POINT_TOLERANCE of an end point of the other (so a
\* segment touching the inside of another is not connected to it); the
\* connections are symmetric and no segment is connected to itself.
ConnectedIffEndPointsCoincide ==
    (host.kind = "filter" /\ host.pc # "buildTopology") =>
        \A i, j \in 1..Len(host.lines) :
            /\ i \notin host.lines[i].connections
            /\ j \in host.lines[i].connections <=> i \in host.lines[j].connections
            /\ i # j =>
                  (j \in host.lines[i].connections <=>
                      \E p \in endPoints(host.lines[i]), q \in endPoints(host.lines[j]) :
                          FLt(FInt(distanceToSquared(p, q)),
                              FMul(POINT_TOLERANCE, POINT_TOLERANCE)))

segmentsOf(buffer) == [i \in 1..(Len(buffer) \div 6) |-> SubSeq(buffer, 6 * i - 5, 6 * i)]

RECURSIVE isSubSequence(_, _)
isSubSequence(a, b) ==
    IF a = <<>> THEN TRUE
    ELSE IF b = <<>> THEN FALSE
    ELSE IF Head(a) = Head(b) THEN isSubSequence(Tail(a), Tail(b))
    ELSE isSubSequence(a, Tail(b))

DetectorScenes ==
    [pv : ProjectionVectors, mesh : TaskMeshes, sortEdges : {TRUE},
     includeIntersectionEdges : {TRUE}, onProgress : {"none"}, bvh : {"ok", "indirect"}]

InitDetector ==
    /\ scene \in [{1} -> DetectorScenes]
    /\ task = [k \in {1} |-> NewTask]
    /\ scratch = InitScratch
    /\ stale = FALSE
    /\ host = [kind |-> "loop"]

NextDetector ==
    \/ LoopNext
    \/ \E k \in {1} : TaskStep(k)

SpecDetector == InitDetector /\ [][NextDetector]_vars

\* C27: generateIntersectionEdges takes every triangle of the mesh as the
\* outer triangle, with or without an index: a query of the detector is always
\* for the triangle at the position the loop has reached, and when the
\* detector returns, the loop has passed over all the triangles of the mesh.
DetectorCoversMesh ==
    \A k \in Tasks :
        LET t == task[k]
            sc == scene[k]
        IN  /\ t.pc = "isect_visit" => scratch._tri.v = sc.mesh[(t.i \div 3) + 1]
            /\ t.pc \in {"isect_head", "isect_visit", "isect_end"} => t.i <= 3 * Len(sc.mesh)
            /\ (sc.includeIntersectionEdges /\ t.pc = "sort") => t.i = 3 * Len(sc.mesh)

\* ---------------------------------------------------------------------
\* A caller that drives one task with next() until it is done and counts
\* its calls and the yields it resumes from, by the place of the yield.
YieldScenes ==
    [pv : ProjectionVectors, mesh : TaskMeshes, sortEdges : BOOLEAN,
     includeIntersectionEdges : BOOLEAN, onProgress : {"none"}, bvh : {"ok"}]

InitYields ==
    /\ scene \in [{1} -> YieldScenes]
    /\ task = [k \in {1} |-> NewTask]
    /\ scratch = InitScratch
    /\ stale = FALSE
    /\ host = [kind |-> "counting", resumptions |-> 0,
               yields |-> [intersection |-> 0, candidates |-> 0, edge |-> 0]]

\* result = task.next()
CountedNext ==
    /\ AtRest
    /\ \E k \in {1} :
          /\ task[k].pc \in {"new", "suspended"}
          /\ task' = [task EXCEPT ![k] = next(task[k])]
          /\ host' = [host EXCEPT
                !.resumptions = @ + 1,
                !.yields = IF task[k].pc = "suspended"
                           THEN [@ EXCEPT ![task[k].yieldAt] = @ + 1]
                           ELSE @]
    /\ UNCHANGED <<scene, scratch, stale>>

NextYields ==
    \/ CountedNext
    \/ \E k \in {1} : TaskStep(k)

SpecYields == InitYields /\ [][NextYields]_vars

\* the yields of a kind so far, the one the task stands at included
yieldsAt(k, kind) ==
    host.yields[kind]
        + IF task[k].pc = "suspended" /\ task[k].yieldAt = kind THEN 1 ELSE 0

\* How far a task has got: the phase, the loop index, the place in the loop
\* body and the triangles the current query has visited.
phaseOf(t) ==
    CASE t.pc = "new" -> 0
      [] t.pc = "start" -> 1
      [] t.pc \in {"isect_head", "isect_visit", "isect_end"} -> 2
      [] t.pc = "suspended" /\ t.yieldAt = "intersection" -> 2
      [] t.pc = "sort" -> 3
      [] t.pc = "suspended" /\ t.yieldAt = "candidates" -> 4
      [] t.pc = "hl_init" -> 5
      [] t.pc \in {"hl_head", "hl_visit", "hl_end"} -> 6
      [] t.pc = "suspended" /\ t.yieldAt = "edge" -> 6
      [] OTHER -> 7

placeOf(t) ==
    CASE t.pc \in {"isect_head", "hl_head"} -> 1
      [] t.pc \in {"isect_visit", "hl_visit"} -> 2
      [] t.pc \in {"isect_end", "hl_end"} -> 3
      [] OTHER -> 0

progressOf(t) == <<phaseOf(t), t.i, placeOf(t), Cardinality(t.visited)>>

RECURSIVE lexLess(_, _)
lexLess(a, b) ==
    IF a = <<>> THEN FALSE
    ELSE Head(a) < Head(b) \/ (Head(a) = Head(b) /\ lexLess(Tail(a), Tail(b)))

\* The guard of the step the task or its caller takes next: next() for a
\* task at rest, the statement at pc for a running one; a query in progress
\* has a triangle left to visit.
canStep(k) ==
    LET t == task[k]
    IN  CASE t.pc \in {"new", "suspended"} -> AtRest
          [] t.pc = "isect_visit" -> (1..Len(scene[k].mesh)) \ t.visited # {}
          [] t.pc = "hl_visit" ->
                admitted(scene[k], scratch, k, t.edges[t.i + 1]) \ t.visited # {}
          [] OTHER -> t.pc \in Running

\* C28: driven by next(), generate ends after finitely many resumptions: it
\* yields at most once per triangle of the mesh in the detector (never when
\* includeIntersectionEdges is false), exactly once between the phases and
\* at most once per candidate edge in the hidden-line phase, whatever the
\* clock says at each time check.  Short of done the guard of a next step
\* holds, and every step moves the task forward in the order of phase, loop
\* index, place in the loop body and triangles visited, all of them bounded.
TerminatesWithBoundedYields ==
    /\ [](\A k \in Tasks :
            LET t == task[k]
                sc == scene[k]
            IN  /\ yieldsAt(k, "intersection") <= Len(sc.mesh)
                /\ ~sc.includeIntersectionEdges => yieldsAt(k, "intersection") = 0
                /\ yieldsAt(k, "candidates") <= 1
                /\ (t.pc = "done" \/ yieldsAt(k, "edge") > 0) => yieldsAt(k, "candidates") = 1
                /\ t.pc \in {"hl_init", "hl_head", "hl_visit", "hl_end"}
                      => yieldsAt(k, "candidates") = 1
                /\ yieldsAt(k, "edge") <= Len(t.edges)
                /\ host.resumptions <= 2 + Len(sc.mesh) + Len(t.edges)
                /\ t.pc # "threw"
                /\ phaseOf(t) = 2 => t.i <= 3 * Len(sc.mesh)
                /\ phaseOf(t) = 6 => t.i <= Len(t.edges)
                /\ t.visited \subseteq 1..Len(sc.mesh)
                /\ t.pc # "done" => canStep(k))
    /\ [][\A k \in Tasks :
            /\ lexLess(progressOf(task[k]), progressOf(task'[k]))
            /\ phaseOf(task[k]) = 6 => task'[k].edges = task[k].edges]_vars

TerminatesWithBoundedYieldsWitness ==
    /\ host.kind = "counting"
    /\ task[1].pc = "done"
    /\ host.yields.intersection = Len(scene[1].mesh)
    /\ host.yields.candidates = 1
    /\ host.yields.edge >= 2
    /\ host.resumptions = 1 + Len(scene[1].mesh) + 1 + host.yields.edge

\* ---------------------------------------------------------------------
\* The page: the global task, the updateEdges generators created so far
\* and the render loop (edgeProjection.js, and its later version with the
\* worker fallback).  generate() is taken as a run of a given number of
\* yields, each resumption of which may report progress or throw.
MaxGenerations == 2

MaxInnerYields == 2

\* task = updateEdges(): a generator object that has not run yet
updateEdges ==
    [pc |-> "new", inner |-> 0, resultDone |-> FALSE, promise |-> "none",
     geometry |-> "null", reportedDone |-> FALSE]

\* one task.next() on an updateEdges generator u.  in.yields is the length
\* of the run of generate() it creates, in.include and in.progress are
\* params.includeIntersectionEdges and an onProgress call with
\* params.displayProjection set, in.throws is generate() or worker.generate
\* throwing, in.useWorker is params.useWorker, in.fallback says whether the
\* page has the worker fallback.
resumeUpdateEdges(u, in) ==
    LET finish(wrote, reported, threw, fellBack) ==
            [u |-> [u EXCEPT !.pc = "finished", !.reportedDone = @ \/ reported],
             wrote |-> wrote, done |-> reported, threw |-> threw, fellBack |-> fellBack]
        yield(v, wrote) ==
            [u |-> v, wrote |-> wrote, done |-> FALSE, threw |-> FALSE, fellBack |-> FALSE]
    IN  CASE u.pc = "new" -> yield([u EXCEPT !.pc = "merged"], FALSE)
          [] u.pc = "merged" ->
                IF ~in.useWorker
                THEN IF in.throws THEN finish(in.include, FALSE, TRUE, FALSE)
                     ELSE IF in.yields = 0 THEN finish(TRUE, TRUE, FALSE, FALSE)
                     ELSE yield([u EXCEPT !.pc = "generating",
                                          !.resultDone = (in.yields = 1),
                                          !.inner = IF in.yields = 1 THEN 0 ELSE in.yields - 2],
                                in.include \/ in.progress)
                ELSE IF in.throws
                     THEN IF in.fallback THEN finish(in.include, TRUE, FALSE, TRUE)
                          ELSE finish(in.include, FALSE, TRUE, FALSE)
                     ELSE yield([u EXCEPT !.pc = "waiting", !.promise = "pending"], in.include)
          [] u.pc = "generating" ->
                IF u.resultDone THEN finish(TRUE, TRUE, FALSE, FALSE)
                ELSE IF in.throws THEN finish(FALSE, FALSE, TRUE, FALSE)
                ELSE yield([u EXCEPT !.resultDone = (u.inner = 0),
                                     !.inner = IF u.inner = 0 THEN 0 ELSE u.inner - 1],
                           in.progress)
          [] u.pc = "waiting" ->
                IF u.geometry # "null" THEN finish(TRUE, TRUE, FALSE, FALSE)
                ELSE yield(u, FALSE)
          [] OTHER -> finish(FALSE, TRUE, FALSE, FALSE)

StepInputs ==
    [yields : 0..MaxInnerYields, include : BOOLEAN, progress : BOOLEAN, throws : BOOLEAN]

\* init(): task = updateEdges(); render();
InitFrames ==
    /\ scene = [k \in {1} |-> [pv |-> <<0, 1, 0>>, mesh |-> <<>>, sortEdges |-> TRUE,
                               includeIntersectionEdges |-> TRUE, onProgress |-> "ok",
                               bvh |-> "ok"]]
    /\ task = [k \in {1} |-> NewTask]
    /\ scratch = InitScratch
    /\ stale = FALSE
    /\ \E fallback \in BOOLEAN :
          host = [kind |-> "frames", fallback |-> fallback, useWorker |-> FALSE,
                  task |-> 1, generators |-> <<updateEdges>>,
                  nexts |-> 0, resumed |-> 0, wrote |-> 0, geometryOf |-> 0,
                  lateCall |-> FALSE]

\* the mutant's render leaves the finished task in place
RenderKeepsTask ==
    /\ host.kind = "frames"
    /\ IF host.task = 0
       THEN host' = [host EXCEPT !.nexts = 0, !.resumed = 0, !.wrote = 0]
       ELSE \E in \in StepInputs :
               LET g == host.task
                   shows(res) ==
                       host' = [host EXCEPT
                           !.generators[g] = res.u,
                           !.useWorker = @ /\ ~res.fellBack,
                           !.nexts = 1, !.resumed = g,
                           !.wrote = IF res.wrote THEN g ELSE 0,
                           !.geometryOf = IF res.wrote THEN g ELSE @,
                           !.lateCall = @ \/ host.generators[g].reportedDone]
               IN  shows(resumeUpdateEdges(host.generators[g],
                         [yields |-> in.yields, include |-> in.include,
                          progress |-> in.progress, throws |-> in.throws,
                          useWorker |-> host.useWorker, fallback |-> host.fallback]))
    /\ UNCHANGED <<scene, task, scratch, stale>>

\* one animation frame
Render ==
    /\ host.kind = "frames"
    /\ IF host.task = 0
       THEN host' = [host EXCEPT !.nexts = 0, !.resumed = 0, !.wrote = 0]
       ELSE \E in \in StepInputs :
               LET g == host.task
                   shows(res) ==
                       host' = [host EXCEPT
                           !.generators[g] = res.u,
                           !.useWorker = @ /\ ~res.fellBack,
                           !.task = IF res.done THEN 0 ELSE @,
                           !.nexts = 1, !.resumed = g,
                           !.wrote = IF res.wrote THEN g ELSE 0,
                           !.geometryOf = IF res.wrote THEN g ELSE @,
                           !.lateCall = @ \/ host.generators[g].reportedDone]
               IN  shows(resumeUpdateEdges(host.generators[g],
                         [yields |-> in.yields, include |-> in.include,
                          progress |-> in.progress, throws |-> in.throws,
                          useWorker |-> host.useWorker, fallback |-> host.fallback]))
    /\ UNCHANGED <<scene, task, scratch, stale>>

\* a control of the page between two frames (regenerate, projection axis,
\* model scale, reload): task = updateEdges()
Regenerate ==
    /\ host.kind = "frames"
    /\ Len(host.generators) < MaxGenerations
    /\ host' = [host EXCEPT
          !.generators = Append(@, updateEdges),
          !.task = Len(host.generators) + 1,
          !.nexts = 0, !.resumed = 0, !.wrote = 0]
    /\ UNCHANGED <<scene, task, scratch, stale>>

\* the useWorker checkbox
SetUseWorker ==
    /\ host.kind = "frames"
    /\ host' = [host EXCEPT !.useWorker = ~@, !.nexts = 0, !.resumed = 0, !.wrote = 0]
    /\ UNCHANGED <<scene, task, scratch, stale>>

\* .then( result => { geometry = result; } )
WorkerResolves ==
    /\ host.kind = "frames"
    /\ \E g \in DOMAIN host.generators :
          /\ host.generators[g].promise = "pending"
          /\ host' = [host EXCEPT
                !.generators[g].promise = "resolved",
                !.generators[g].geometry = "result",
                !.nexts = 0, !.resumed = 0, !.wrote = 0]
    /\ UNCHANGED <<scene, task, scratch, stale>>

\* the promise is rejected: nothing handles it on the first page; on the
\* page with the fallback, .catch sets task = updateEdges( runTime )
WorkerRejects ==
    /\ host.kind = "frames"
    /\ \E g \in DOMAIN host.generators :
          /\ host.generators[g].promise = "pending"
          /\ host.fallback => Len(host.generators) < MaxGenerations
          /\ host' = IF host.fallback
                     THEN [host EXCEPT
                             !.generators = Append([@ EXCEPT ![g].promise = "rejected"],
                                                   updateEdges),
                             !.task = Len(host.generators) + 1,
                             !.useWorker = FALSE,
                             !.nexts = 0, !.resumed = 0, !.wrote = 0]
                     ELSE [host EXCEPT
                             !.generators[g].promise = "rejected",
                             !.nexts = 0, !.resumed = 0, !.wrote = 0]
    /\ UNCHANGED <<scene, task, scratch, stale>>

NextFrames ==
    \/ Render
    \/ Regenerate
    \/ SetUseWorker
    \/ WorkerResolves
    \/ WorkerRejects

SpecFrames == InitFrames /\ [][NextFrames]_vars

\* what a resumption can change of a generator (the promise's callbacks
\* set its local variable geometry without resuming it)
position(u) == <<u.pc, u.inner, u.resultDone, u.reportedDone>>

\* C30: a frame calls next() at most once, on the global task; a generator
\* that is not the global task (superseded by a newer one, or finished and
\* cleared) is not resumed, stays where it is and does not write
\* projection.geometry; the global task is null or the newest generator;
\* a generator that has reported done is not the global task and next() is
\* not called on it again.
OneTaskPerFrame ==
    /\ [](/\ host.nexts <= 1
          /\ host.task \in {0, Len(host.generators)}
          /\ ~host.lateCall
          /\ \A g \in DOMAIN host.generators :
                host.generators[g].reportedDone => host.task # g)
    /\ [][/\ host'.resumed \in {0, host.task}
          /\ host'.wrote \in {0, host.task}
          /\ \A g \in DOMAIN host.generators :
                g # host.task =>
                    /\ position(host'.generators[g]) = position(host.generators[g])
                    /\ host'.resumed # g
                    /\ host'.wrote # g]_vars

\* a generator was superseded in the middle of its run, the next one ran to
\* its end, wrote the geometry and was cleared
OneTaskPerFrameWitness ==
    /\ host.kind = "frames"
    /\ Len(host.generators) >= 2
    /\ host.generators[1].pc \in {"generating", "waiting"}
    /\ host.generators[2].pc = "finished"
    /\ host.generators[2].reportedDone
    /\ host.geometryOf = 2
    /\ host.task # 2

====
